---- MODULE Spec2Model ----
(***************************************************************************)
(* Model of the chat-web5 relay server: the WebSocketServer (connection   *)
(* set, connection-to-identity map, presence map, message handlers, the   *)
(* liveness sweep), the DIDCommService client registry it drives, and the *)
(* WebhookManager (configuration table, triggers, HTTP delivery, retry).  *)
(*                                                                         *)
(* Every handler of the server runs to completion on the Node event loop, *)
(* so each handler is one action.  The `ws` transport is the environment: *)
(* a socket is OPEN when 'connection' fires, may become CLOSING (close    *)
(* frame received, socket error, terminate()), and becomes CLOSED at the  *)
(* moment its 'close' event runs handleDisconnection.  A 'message' event  *)
(* is delivered for a socket that is OPEN, or CLOSING with data still     *)
(* buffered; never after 'close'.                                         *)
(***************************************************************************)
EXTENDS Integers, Sequences, FiniteSets, Bags, TLC

\* ------------------------------------------------------------------------
\* Bounds of the model

\* number of transport connections (ws objects) the server accepts in a run
NConns == 2

Conns == 1..NConns

\* identities a client may claim
DIDs == {"did:a", "did:b"}

\* absent / undefined field of an envelope
Nil == "nil"

\* chats named by envelopes
Chats == {"c1"}

\* invitation identifiers
Invites == {"inv1"}

\* content of chat messages
Contents == {"hi"}

\* ciphertexts of encrypted_chat envelopes
Payloads == {"enc1"}

\* sender and timestamp fields a client may put in an envelope it sends
ClaimedSenders == {Nil, "did:a", "did:b"}

ClientTimes == {Nil, "t-client"}

\* the value of new Date().toISOString() on the server
ServerTime == "t-server"

\* number of triggerWebhook calls that may be in progress at the same time
MaxTriggers == 1

\* webhook objects a client may put in register_webhook: url, optional
\* secret, optional retryAttempts (0 stands for absent or zero)
Urls == {"http://h1"}

Secrets == {"s1"}

RetryInputs == {-1, 0, 1}

WebhookInputs ==
  [url : Urls, secret : Secrets \cup {Nil}, retryAttempts : RetryInputs]

\* the webhook objects and the identity of the delivery scenarios
DeliveryInputs ==
  [url : Urls, secret : Secrets \cup {Nil}, retryAttempts : {0, 1}]

DeliveryDIDs == {"did:a"}

\* registrations and messages of the concurrent triggers: one more message
\* than MaxTriggers, each of its own content
TriggerInputs == [url : Urls, secret : Secrets, retryAttempts : {-1, 1}]

ContentNames == <<"m1", "m2", "m3", "m4">>

TriggerContents == {ContentNames[i] : i \in 1..(MaxTriggers + 1)}

\* most handler continuations waiting at one time
MaxMicrotasks == 2

\* registrations that replace one another: the urls and secrets differ
ReconfigureInputs ==
  [url : {"http://h1", "http://h2"}, secret : {"s1", "s2"}, retryAttempts : {1}]

ReconfigureContents == {"m1", "m2"}

\* registrations whose retries outlast the cap of calculateRetryDelay
BackoffInputs == [url : Urls, secret : Secrets, retryAttempts : {5}]

\* register_webhook without a webhook object
NoInput == [url |-> Nil, secret |-> Nil, retryAttempts |-> 0]

\* results of crypto.randomBytes in generateSecret
GeneratedSecrets == {"g1"}

\* outcomes of one HTTP request: a status code, or 0 for a network error
\* or a timeout
Statuses == {0, 200, 300, 500}

\* members a credential object may carry, and the values of a member: a
\* string, undefined, NaN
CredentialKeys == {"id", "role"}

MemberValues == {"alice", "undefined", "NaN"}

\* the credential objects handed to encryptCredential
Credentials == UNION {[K -> MemberValues] : K \in SUBSET CredentialKeys}

\* longest credential list handed to createEncryptedBackup
MaxCredentials == 2

\* the credentials a backup list is made of
BackupCredentials == {c \in Credentials : DOMAIN c = {"id"} /\ c["id"] # "NaN"}

\* crypto.randomBytes(16) of one call
Salts == {"salt1", "salt2"}

\* backup passphrases
Passwords == {"pw1", "pw2"}

\* what deciphering damaged or wrongly keyed data yields: final() throws,
\* text that is not JSON, or text that is JSON of another value
Garbles == {"bad decrypt", "not json", "other json"}

\* ------------------------------------------------------------------------
\* State

VARIABLES
  readyState,        \* ws.readyState of every connection object ("NONE": not accepted yet)
  clients,           \* WebSocketServer.clients (Set of ws)
  clientDids,        \* WebSocketServer.clientDids (Map ws -> did)
  onlineUsers,       \* WebSocketServer.onlineUsers (Map did -> clientIds Set)
  connectedClients,  \* DIDCommService.connectedClients (Map did -> ws)
  isAlive,           \* ws.isAlive flag used by the sweep
  timers,            \* connections with a pending 5 s liveness timeout
  webhooks,          \* WebhookManager.webhooks (Map chatId -> config)
  triggers,          \* bag of the triggerWebhook calls in progress
  isRunning,         \* ChatServer.isRunning
  nodeProcess,       \* the Node process: "up", "exiting" (process.exit queued), "exited"
  held,              \* the blob or backup a caller of CredentialCryptoService holds
  microtasks,        \* continuations of handlers that wait on a settled promise
  outcome,           \* what the last direct call of a service method returned or threw
  step,              \* the handler that ran last and its input
  sent,              \* bag of [to, env]: envelopes transmitted by the last handler
  bcast              \* sequence of envelopes passed to broadcast() by the last handler

vars == <<readyState, clients, clientDids, onlineUsers, connectedClients,
          isAlive, timers, webhooks, triggers, isRunning, nodeProcess,
          held, outcome, microtasks, step, sent, bcast>>

connVars == <<readyState, clients, clientDids, onlineUsers, connectedClients,
              isAlive, timers>>

hookVars == <<webhooks, triggers>>

procVars == <<isRunning, nodeProcess>>

cryptoVars == <<held, outcome>>

\* ------------------------------------------------------------------------
\* Envelopes

Msg(type) ==
  [type |-> type, did |-> Nil, chatId |-> Nil, sender |-> Nil,
   content |-> Nil, message |-> Nil, webhook |-> <<>>, success |-> Nil,
   encryptedPayload |-> Nil, timestamp |-> Nil]

\* retryAttempts of a configuration registered without one
DefaultRetryAttempts == 3

NoWebhook ==
  [chatId |-> Nil, ownerDid |-> Nil, registeredAt |-> Nil, url |-> Nil,
   secret |-> Nil, active |-> FALSE, retryAttempts |-> 0]

NoPayload == [chatId |-> Nil, event |-> Msg(Nil)]

IdleTrigger ==
  [phase |-> "idle", webhook |-> NoWebhook, payload |-> NoPayload,
   attempt |-> 0, delay |-> 0, reqs |-> << >>, failures |-> 0]

\* step: the handler that ran, its connection and input (env: the envelope
\* as the client sent it, for the relayed types); for a delivery step also
\* the HTTP outcome and the trigger as the step left it
Step(op, c, did, chatId) ==
  [op |-> op, conn |-> c, did |-> did, chatId |-> chatId,
   status |-> 0, tr |-> IdleTrigger, env |-> Msg(Nil)]

\* a 'message' event can fire on connection c
Receives(c) == c \in clients /\ readyState[c] \in {"OPEN", "CLOSING"}

\* Map.get on clientDids: undefined is Nil
DidOf(cd, ws) == IF ws \in DOMAIN cd THEN cd[ws] ELSE Nil

\* Map.set / Map.delete on a Map modelled as a function with a finite domain
MapSet(m, k, v) == [x \in (DOMAIN m) \cup {k} |-> IF x = k THEN v ELSE m[x]]

MapDelete(m, k) == [x \in (DOMAIN m) \ {k} |-> m[x]]

EmptyMap == [x \in {} |-> Nil]

\* sendToClient without the readyState test
sendToClient_NoStateCheck(rs, ws, message) ==
  SetToBag({[to |-> ws, env |-> message]})

\* sendToClient: transmits only when the socket is OPEN, otherwise drops
sendToClient(rs, ws, message) ==
  IF rs[ws] = "OPEN" THEN SetToBag({[to |-> ws, env |-> message]}) ELSE EmptyBag

\* broadcast with the readyState test inverted
broadcast_InvertedCheck(rs, cl, message) ==
  SetToBag({[to |-> c, env |-> message] : c \in {x \in cl : rs[x] # "OPEN"}})

\* broadcast: every member of this.clients whose socket is OPEN
broadcast(rs, cl, message) ==
  SetToBag({[to |-> c, env |-> message] : c \in {x \in cl : rs[x] = "OPEN"}})

\* enrichedMessage with the spread after the server's fields, so that the
\* fields of the client's envelope win
enrichedMessage_ClientFieldsWin(message, senderDid) ==
  [message EXCEPT !.sender = IF message.sender # Nil THEN message.sender ELSE senderDid,
                  !.timestamp = IF message.timestamp # Nil THEN message.timestamp
                                                           ELSE ServerTime]

\* enrichedMessage of handleChatMessage: { ...message, sender: senderDid,
\* timestamp: new Date().toISOString() }
enrichedMessage(message, senderDid) ==
  [message EXCEPT !.sender = senderDid, !.timestamp = ServerTime]

\* the forwarding loop of handleEncryptedChat without the test of the
\* recipient's identity
encryptedRecipients_NoDidCheck(rs, cl, cd, ws) ==
  {client \in cl : client # ws /\ rs[client] = "OPEN"}

\* the forwarding loop of handleEncryptedChat: the clients it sends to
encryptedRecipients(rs, cl, cd, ws) ==
  {client \in cl : client # ws /\ rs[client] = "OPEN" /\ DidOf(cd, client) # Nil}

\* setUserOnline
setUserOnline(ou, did, ws) ==
  LET ou1 == IF did \in DOMAIN ou THEN ou ELSE MapSet(ou, did, {})
  IN  [ou1 EXCEPT ![did] = @ \cup {ws}]

\* setUserOffline
setUserOffline(ou, did, ws) ==
  IF did \in DOMAIN ou
    THEN LET ids == ou[did] \ {ws}
         IN  IF Cardinality(ids) = 0 THEN MapDelete(ou, did)
                                     ELSE [ou EXCEPT ![did] = ids]
    ELSE ou

\* broadcastUserOnline: the sequence of broadcast() calls it makes
broadcastUserOnline(did) ==
  << [Msg("user_online") EXCEPT !.did = did] >>

\* broadcastUserOffline: broadcasts only when the presence map has no entry
broadcastUserOffline(ou, did) ==
  IF did \notin DOMAIN ou
    THEN << [Msg("user_offline") EXCEPT !.did = did] >>
    ELSE << >>

\* the transmissions of a sequence of broadcast() calls
RECURSIVE BroadcastAll(_, _, _)
BroadcastAll(rs, cl, calls) ==
  IF calls = << >> THEN EmptyBag
  ELSE broadcast(rs, cl, Head(calls)) (+) BroadcastAll(rs, cl, Tail(calls))

\* DIDCommService.registerClient / unregisterClient / cleanup
NoSocket == 0

registerClientThrows(did, ws) == did = Nil \/ ws = NoSocket

registerClient(cc, did, ws) ==
  IF registerClientThrows(did, ws) THEN cc ELSE MapSet(cc, did, ws)

unregisterClient(cc, did) == IF did \in DOMAIN cc THEN MapDelete(cc, did) ELSE cc

didCommCleanup(cc) == EmptyMap

\* ------------------------------------------------------------------------
\* WebhookManager

\* an object literal { ...base, k: v, ... }: the properties of base, then
\* the listed ones, a later property replacing an earlier one of its name
ObjectSpread(base, listed) ==
  [k \in (DOMAIN base) \cup (DOMAIN listed) |->
     IF k \in DOMAIN listed THEN listed[k] ELSE base[k]]

\* registerWebhook with the spread after the server's fields, so that the
\* fields of the client's webhook object win
registerWebhook_ClientFieldsWin(chatId, ownerDid, webhookConfig, generated) ==
  ObjectSpread(
    [chatId |-> chatId,
     ownerDid |-> ownerDid,
     registeredAt |-> ServerTime,
     secret |-> IF webhookConfig.secret # Nil THEN webhookConfig.secret ELSE generated,
     active |-> TRUE,
     retryAttempts |-> IF webhookConfig.retryAttempts # 0
                         THEN webhookConfig.retryAttempts ELSE DefaultRetryAttempts],
    webhookConfig)

\* registerWebhook: the configuration it stores and returns
registerWebhook(chatId, ownerDid, webhookConfig, generated) ==
  ObjectSpread(webhookConfig,
    [chatId |-> chatId,
     ownerDid |-> ownerDid,
     registeredAt |-> ServerTime,
     secret |-> IF webhookConfig.secret # Nil THEN webhookConfig.secret ELSE generated,
     active |-> TRUE,
     retryAttempts |-> IF webhookConfig.retryAttempts # 0
                         THEN webhookConfig.retryAttempts ELSE DefaultRetryAttempts])

\* removeWebhook without the comparison of the requester with the owner
removeWebhook_NoOwnerCheck(wh, chatId, requestingDid) ==
  IF chatId \notin DOMAIN wh THEN "not found" ELSE "ok"

\* removeWebhook: "ok", or the error it throws
removeWebhook(wh, chatId, requestingDid) ==
  IF chatId \notin DOMAIN wh THEN "not found"
  ELSE IF wh[chatId].ownerDid # requestingDid THEN "not owner"
  ELSE "ok"

\* canConfigureWebhook (defined by WebhookManager, called by no handler)
canConfigureWebhook(wh, chatId, did) ==
  chatId \notin DOMAIN wh \/ wh[chatId].ownerDid = did

\* JSON.stringify of a payload
JSONstringify(payload) == <<"json", payload>>

\* generateSignature: hex HMAC-SHA256 of the data under the secret
generateSignature(data, secret) == <<"hmac-sha256", secret, data>>

\* sendWebhookRequest that reads the configuration the chat has now, when
\* it has one, instead of the one it is given
sendWebhookRequest_CurrentConfig(webhook, payload) ==
  LET current == IF payload.chatId \in DOMAIN webhooks
                   THEN webhooks[payload.chatId] ELSE webhook
      jsonPayload == JSONstringify(payload)
  IN  [url |-> current.url, body |-> jsonPayload,
       signature |-> generateSignature(jsonPayload, current.secret)]

\* sendWebhookRequest: the HTTP POST it issues
sendWebhookRequest(webhook, payload) ==
  LET jsonPayload == JSONstringify(payload)
  IN  [url |-> webhook.url, body |-> jsonPayload,
       signature |-> generateSignature(jsonPayload, webhook.secret)]

\* a response resolves the request promise iff its status is in [200,300)
Resolves(status) == status >= 200 /\ status < 300

\* defaults of calculateRetryDelay, and the bound of its jitter
BaseDelay == 1000

MaxDelay == 30000

JitterBound == 1000

Min(a, b) == IF a <= b THEN a ELSE b

\* calculateRetryDelay of the utilities (exported, called by no module);
\* jitter is Math.random() * 1000
calculateRetryDelay(attempt, jitter) ==
  Min(BaseDelay * 2^(attempt - 1), MaxDelay) + jitter

\* retryDelay of addToRetryQueue, the delay of its setTimeout
retryDelay(attempt) == 2^attempt * 1000

\* addToRetryQueue that stops one attempt early
addToRetryQueue_StopsEarly(tr, attempt) ==
  IF attempt < tr.webhook.retryAttempts - 1
    THEN [tr EXCEPT !.phase = "scheduled", !.attempt = attempt,
                    !.delay = retryDelay(attempt)]
    ELSE [tr EXCEPT !.phase = "dropped"]

\* addToRetryQueue(webhook, payload, attempt) for the trigger tr
addToRetryQueue(tr, attempt) ==
  IF attempt <= tr.webhook.retryAttempts
    THEN [tr EXCEPT !.phase = "scheduled", !.attempt = attempt,
                    !.delay = retryDelay(attempt)]
    ELSE [tr EXCEPT !.phase = "dropped"]

\* the triggers in progress that carry a message of the given content
TriggersOf(tg, content) ==
  [t \in {x \in BagToSet(tg) : x.payload.event.content = content} |-> tg[t]]

\* another trigger for a message of this content can be tracked
HasRoom(tg, content) == BagCardinality(TriggersOf(tg, content)) < MaxTriggers

\* the test of triggerWebhook without the reading of webhook.active
Triggers_IgnoresActive(wh, chatId) == chatId \in DOMAIN wh

\* triggerWebhook: TRUE iff the chat has an active configuration
Triggers(wh, chatId) == chatId \in DOMAIN wh /\ wh[chatId].active

\* triggerWebhook that issues its first request twice
triggerWebhook_SendsTwice(wh, tg, chatId, eventData) ==
  IF ~Triggers(wh, chatId) THEN tg
  ELSE LET payload == [chatId |-> chatId, event |-> eventData]
       IN  tg (+) SetToBag({
              [phase |-> "inflight", webhook |-> wh[chatId], payload |-> payload,
               attempt |-> 0, delay |-> 0,
               reqs |-> << sendWebhookRequest(wh[chatId], payload),
                           sendWebhookRequest(wh[chatId], payload) >>,
               failures |-> 0]})

\* triggerWebhook: the triggers in progress after the call (payload built,
\* first request issued)
triggerWebhook(wh, tg, chatId, eventData) ==
  IF ~Triggers(wh, chatId) THEN tg
  ELSE LET payload == [chatId |-> chatId, event |-> eventData]
       IN  tg (+) SetToBag({
              [phase |-> "inflight", webhook |-> wh[chatId], payload |-> payload,
               attempt |-> 0, delay |-> 0,
               reqs |-> << sendWebhookRequest(wh[chatId], payload) >>,
               failures |-> 0]})

\* ------------------------------------------------------------------------
\* CredentialCryptoService

\* a credential argument: an object, or a falsy value (null, undefined)
Given(credential) == [present |-> TRUE, object |-> credential]

NoCredential == [present |-> FALSE, object |-> EmptyMap]

\* the value JSON text can carry of an object: members that are undefined
\* are left out, NaN is written as null
JSONvalue(object) ==
  [k \in {x \in DOMAIN object : object[x] # "undefined"} |->
     IF object[k] = "NaN" THEN "null" ELSE object[k]]

\* JSON.parse: the value of JSON text (a SyntaxError is thrown for other text)
IsJSON(text) == text[1] = "json"

JSONparse(text) == text[2]

\* deriveKey / deriveKeyFromPassword: PBKDF2 of the identity or the
\* passphrase with the salt
deriveKey(userDid, salt) == <<"pbkdf2", userDid, salt>>

deriveKeyFromPassword(password, salt) == <<"pbkdf2", password, salt>>

\* calculateChecksum: hex SHA-256 of the data
calculateChecksum(data) == <<"sha256", data>>

\* crypto.createCipher(algorithm, key), update and final: the hex
\* ciphertext.  The key and the IV of the cipher both come from the second
\* argument; the iv field of a blob is not used.  flipped: a byte of the
\* ciphertext was changed after the encryption
createCipher(key, plaintext) == [key |-> key, data |-> plaintext, flipped |-> FALSE]

\* the object JSON text carries when a damaged block falls inside its
\* member values
Garbled(object) == [k \in DOMAIN object |-> "garbled"]

\* crypto.createDecipher(algorithm, key), update and final: the text, or
\* "bad decrypt" thrown by final().  Intact data under its own key gives the
\* plaintext.  Under another key the padding check fails or the text is not
\* JSON; a changed byte may also leave JSON text of another value
createDecipher(key, encrypted, garble) ==
  IF encrypted.key = key /\ ~encrypted.flipped
    THEN [thrown |-> FALSE, text |-> encrypted.data]
  ELSE IF garble = "bad decrypt"
    THEN [thrown |-> TRUE, text |-> <<"none", EmptyMap>>]
  ELSE IF garble = "other json" /\ encrypted.key = key /\ IsJSON(encrypted.data)
          /\ DOMAIN JSONparse(encrypted.data) # {}
    THEN [thrown |-> FALSE, text |-> <<"json", Garbled(JSONparse(encrypted.data))>>]
  ELSE [thrown |-> FALSE, text |-> <<"garbage", EmptyMap>>]

\* what a call returns or throws
Returned(call, value) ==
  [call |-> call, args |-> << >>, ok |-> TRUE, error |-> Nil, value |-> value]

Thrown(call, error) ==
  [call |-> call, args |-> << >>, ok |-> FALSE, error |-> error, value |-> << >>]

NoResult == [call |-> Nil, args |-> << >>, ok |-> FALSE, error |-> Nil, value |-> << >>]

\* encryptCredential that derives its key from another salt than the one
\* it stores in the blob
encryptCredential_KeyWithoutSalt(userDid, credential, salt) ==
  IF userDid = Nil \/ ~credential.present
    THEN Thrown("encryptCredential", "Falha na criptografia da credencial")
    ELSE LET key == deriveKey(userDid, Nil)
             plaintext == JSONstringify(JSONvalue(credential.object))
             encrypted == createCipher(key, plaintext)
         IN  Returned("encryptCredential",
                      << [encrypted |-> encrypted, salt |-> salt, userDid |-> userDid,
                          checksum |-> calculateChecksum(encrypted)] >>)

\* encryptCredential: the blob it returns (as the one value), or the
\* error its catch block throws for every failure
encryptCredential(userDid, credential, salt) ==
  IF userDid = Nil \/ ~credential.present
    THEN Thrown("encryptCredential", "Falha na criptografia da credencial")
    ELSE LET key == deriveKey(userDid, salt)
             plaintext == JSONstringify(JSONvalue(credential.object))
             encrypted == createCipher(key, plaintext)
         IN  Returned("encryptCredential",
                      << [encrypted |-> encrypted, salt |-> salt, userDid |-> userDid,
                          checksum |-> calculateChecksum(encrypted)] >>)

\* decryptCredential that reads the object without deciphering under the
\* key of the requesting identity
decryptCredential_AnyIdentity(userDid, encryptedCredential, garble) ==
  Returned("decryptCredential", << JSONparse(encryptedCredential.encrypted.data) >>)

\* decryptCredential: the credential it returns, or the error its catch
\* block throws for every failure (missing argument, other owner, bad
\* decrypt, SyntaxError of JSON.parse).  The checksum is not read
decryptCredential(userDid, encryptedCredential, garble) ==
  IF userDid = Nil \/ encryptedCredential.userDid # userDid
    THEN Thrown("decryptCredential", "Falha na descriptografia da credencial")
    ELSE LET key == deriveKey(userDid, encryptedCredential.salt)
             decrypted == createDecipher(key, encryptedCredential.encrypted, garble)
         IN  IF decrypted.thrown \/ ~IsJSON(decrypted.text)
               THEN Thrown("decryptCredential", "Falha na descriptografia da credencial")
               ELSE Returned("decryptCredential", << JSONparse(decrypted.text) >>)

\* validateCredentialIntegrity: the valid field of its result
validateCredentialIntegrity(encryptedCredential) ==
  calculateChecksum(encryptedCredential.encrypted) = encryptedCredential.checksum

\* createEncryptedBackup: the backup it returns (as the one value), or the
\* error its catch block throws; salt is what its randomBytes calls give
createEncryptedBackup(userDid, credentials, backupPassword, salt) ==
  LET each == [i \in DOMAIN credentials |->
                 encryptCredential(userDid, credentials[i], salt)]
  IN  IF \E i \in DOMAIN credentials : ~each[i].ok
        THEN Thrown("createEncryptedBackup", "Falha na criação do backup")
        ELSE LET backupData == [userDid |-> userDid,
                                credentialsCount |-> Len(credentials),
                                credentials |-> [i \in DOMAIN credentials |->
                                                   each[i].value[1]]]
                 backupJson == JSONstringify(backupData)
                 key == deriveKeyFromPassword(backupPassword, salt)
                 encryptedBackup == createCipher(key, backupJson)
             IN  Returned("createEncryptedBackup",
                          << [encrypted |-> encryptedBackup, salt |-> salt,
                              checksum |-> calculateChecksum(encryptedBackup)] >>)

\* restoreEncryptedBackup that returns the credentials last one first
restoreEncryptedBackup_Reversed(userDid, encryptedBackup, backupPassword, garble) ==
  LET key == deriveKeyFromPassword(backupPassword, encryptedBackup.salt)
      decryptedBackup == createDecipher(key, encryptedBackup.encrypted, garble)
  IN  IF decryptedBackup.thrown \/ ~IsJSON(decryptedBackup.text)
        THEN Thrown("restoreEncryptedBackup", "Falha na restauração do backup")
      ELSE LET backupData == JSONparse(decryptedBackup.text)
               n == Len(backupData.credentials)
               each == [i \in 1..n |->
                          decryptCredential(userDid, backupData.credentials[n + 1 - i], garble)]
           IN  IF backupData.userDid # userDid \/ \E i \in DOMAIN each : ~each[i].ok
                 THEN Thrown("restoreEncryptedBackup", "Falha na restauração do backup")
                 ELSE Returned("restoreEncryptedBackup",
                               [i \in DOMAIN each |-> each[i].value[1]])

\* restoreEncryptedBackup: the credential list it returns, or the error its
\* catch block throws for every failure
restoreEncryptedBackup(userDid, encryptedBackup, backupPassword, garble) ==
  LET key == deriveKeyFromPassword(backupPassword, encryptedBackup.salt)
      decryptedBackup == createDecipher(key, encryptedBackup.encrypted, garble)
  IN  IF decryptedBackup.thrown \/ ~IsJSON(decryptedBackup.text)
        THEN Thrown("restoreEncryptedBackup", "Falha na restauração do backup")
      ELSE LET backupData == JSONparse(decryptedBackup.text)
               each == [i \in DOMAIN backupData.credentials |->
                          decryptCredential(userDid, backupData.credentials[i], garble)]
           IN  IF backupData.userDid # userDid \/ \E i \in DOMAIN each : ~each[i].ok
                 THEN Thrown("restoreEncryptedBackup", "Falha na restauração do backup")
                 ELSE Returned("restoreEncryptedBackup",
                               [i \in DOMAIN each |-> each[i].value[1]])

\* what a caller holds: nothing, a blob of encryptCredential or a backup,
\* with the arguments that produced it
NoBlob == [encrypted |-> createCipher(deriveKey(Nil, Nil), <<"none", EmptyMap>>), salt |-> Nil,
           userDid |-> Nil, checksum |-> Nil]

NothingHeld ==
  [kind |-> "none", blob |-> NoBlob, userDid |-> Nil, input |-> << >>, password |-> Nil]

\* ------------------------------------------------------------------------
\* Initial state: the server after construction and start()

Init ==
  /\ readyState = [c \in Conns |-> "NONE"]
  /\ clients = {}
  /\ clientDids = EmptyMap
  /\ onlineUsers = EmptyMap
  /\ connectedClients = EmptyMap
  /\ isAlive = [c \in Conns |-> FALSE]
  /\ timers = {}
  /\ webhooks = EmptyMap
  /\ triggers = EmptyBag
  /\ isRunning = TRUE
  /\ nodeProcess = "up"
  /\ held = NothingHeld
  /\ outcome = NoResult
  /\ microtasks = << >>
  /\ step = Step("init", 0, Nil, Nil)
  /\ sent = EmptyBag
  /\ bcast = << >>

\* ------------------------------------------------------------------------
\* Transport events

\* wss 'connection': handleConnection.  Connections are numbered in the
\* order in which the server accepts them
handleConnection(c) ==
  /\ readyState[c] = "NONE"
  /\ \A x \in Conns : x < c => readyState[x] # "NONE"
  /\ readyState' = [readyState EXCEPT ![c] = "OPEN"]
  /\ clients' = clients \cup {c}
  /\ step' = Step("connect", c, Nil, Nil)
  /\ sent' = sendToClient(readyState', c, Msg("connection_established"))
  /\ bcast' = << >>
  /\ UNCHANGED <<clientDids, onlineUsers, connectedClients, isAlive, timers, hookVars, procVars, cryptoVars, microtasks>>

\* the transport starts closing (close frame from the peer, socket error):
\* readyState leaves OPEN before the 'close' event is emitted
transportClosing(c) ==
  /\ readyState[c] = "OPEN"
  /\ readyState' = [readyState EXCEPT ![c] = "CLOSING"]
  /\ step' = Step("closing", c, Nil, Nil)
  /\ sent' = EmptyBag
  /\ bcast' = << >>
  /\ UNCHANGED <<clients, clientDids, onlineUsers, connectedClients, isAlive, timers, hookVars, procVars, cryptoVars, microtasks>>

\* ws 'close': handleDisconnection, run with readyState already CLOSED
handleDisconnection(c) ==
  /\ readyState[c] \in {"OPEN", "CLOSING"}
  /\ LET did == DidOf(clientDids, c)
         ou  == IF did # Nil THEN setUserOffline(onlineUsers, did, c) ELSE onlineUsers
         bc  == IF did # Nil THEN broadcastUserOffline(ou, did) ELSE << >>
     IN  /\ readyState' = [readyState EXCEPT ![c] = "CLOSED"]
         /\ clients' = clients \ {c}
         /\ clientDids' = MapDelete(clientDids, c)
         /\ connectedClients' = IF did # Nil THEN unregisterClient(connectedClients, did)
                                             ELSE connectedClients
         /\ onlineUsers' = ou
         /\ bcast' = bc
         /\ sent' = BroadcastAll(readyState', clients', bc)
         /\ step' = Step("close", c, did, Nil)
  /\ UNCHANGED <<isAlive, timers, hookVars, procVars, cryptoVars, microtasks>>

\* ws 'pong'
handlePong(c) ==
  /\ readyState[c] = "OPEN"
  /\ isAlive' = [isAlive EXCEPT ![c] = TRUE]
  /\ step' = Step("pong", c, Nil, Nil)
  /\ sent' = EmptyBag
  /\ bcast' = << >>
  /\ UNCHANGED <<readyState, clients, clientDids, onlineUsers, connectedClients, timers, hookVars, procVars, cryptoVars, microtasks>>

\* ------------------------------------------------------------------------
\* Liveness sweep

\* cleanupConnections: the 30 s interval callback.  The 5 s timeouts of
\* the previous sweep have fired before the next sweep runs.
cleanupConnections ==
  /\ timers = {}
  /\ clients # {}
  /\ LET closed == {c \in clients : readyState[c] = "CLOSED"}
         probed == clients \ closed
     IN  /\ clients' = clients \ closed
         /\ clientDids' = [c \in (DOMAIN clientDids) \ closed |-> clientDids[c]]
         /\ isAlive' = [c \in Conns |-> IF c \in probed THEN FALSE ELSE isAlive[c]]
         /\ timers' = probed
  /\ connectedClients' = didCommCleanup(connectedClients)
  /\ step' = Step("sweep", 0, Nil, Nil)
  /\ sent' = EmptyBag
  /\ bcast' = << >>
  /\ UNCHANGED <<readyState, onlineUsers, hookVars, procVars, cryptoVars, microtasks>>

\* the setTimeout callback of cleanupConnections for one client:
\* terminate() moves a socket that is not CLOSED to CLOSING
sweepTimeout(c) ==
  /\ c \in timers
  /\ timers' = timers \ {c}
  /\ readyState' = IF ~isAlive[c] /\ readyState[c] # "CLOSED"
                     THEN [readyState EXCEPT ![c] = "CLOSING"]
                     ELSE readyState
  /\ step' = Step("timeout", c, Nil, Nil)
  /\ sent' = EmptyBag
  /\ bcast' = << >>
  /\ UNCHANGED <<clients, clientDids, onlineUsers, connectedClients, isAlive, hookVars, procVars, cryptoVars, microtasks>>

\* ------------------------------------------------------------------------
\* Message handlers (handleMessage dispatches on message.type)

\* 'authenticate' / 'auth': handleAuthentication
handleAuthentication(c, did) ==
  /\ Receives(c)
  /\ step' = Step("authenticate", c, did, Nil)
  /\ IF did = Nil
       THEN /\ sent' = sendToClient(readyState, c,
                         [Msg("auth_error") EXCEPT !.message = "DID required"])
            /\ bcast' = << >>
            /\ UNCHANGED <<clientDids, connectedClients, onlineUsers>>
       ELSE /\ clientDids' = MapSet(clientDids, c, did)
            /\ connectedClients' = registerClient(connectedClients, did, c)
            /\ onlineUsers' = setUserOnline(onlineUsers, did, c)
            /\ bcast' = broadcastUserOnline(did)
            /\ sent' = sendToClient(readyState, c, [Msg("authenticated") EXCEPT !.did = did])
                       (+) BroadcastAll(readyState, clients, bcast')
  /\ UNCHANGED <<readyState, clients, isAlive, timers, hookVars, procVars, cryptoVars, microtasks>>

\* the 'message' events of the frames of one chunk are emitted one after
\* the other, before any continuation runs: while continuations wait, only
\* the connection whose handlers they belong to can have another 'message'
SameChunk(c) == \A i \in DOMAIN microtasks : microtasks[i].conn = c

\* 'didcomm_message': handleDIDCommMessage up to its await.  The call
\* processReceivedMessage(message.encryptedMessage, senderDid) reaches a
\* callee declared as (fromDid, encryptedMessage), which reads .content of
\* the identity string and throws: the awaited promise is rejected whatever
\* the envelope holds
handleDIDCommMessage(c) ==
  /\ Receives(c)
  /\ SameChunk(c)
  /\ step' = Step("didcomm_message", c, Nil, Nil)
  /\ bcast' = << >>
  /\ IF DidOf(clientDids, c) = Nil
       THEN /\ sent' = sendToClient(readyState, c,
                         [Msg("error") EXCEPT !.message = "not authenticated"])
            /\ UNCHANGED microtasks
       ELSE /\ Len(microtasks) < MaxMicrotasks
            /\ sent' = EmptyBag
            /\ microtasks' = Append(microtasks, [conn |-> c, reply |-> "didcomm_error"])
  /\ UNCHANGED <<connVars, hookVars, procVars, cryptoVars>>

\* the continuation of the oldest waiting handler: the catch branch of
\* handleDIDCommMessage sends didcomm_error
runMicrotask ==
  /\ microtasks # << >>
  /\ LET task == Head(microtasks)
     IN  /\ step' = Step("didcomm_settled", task.conn, Nil, Nil)
         /\ sent' = sendToClient(readyState, task.conn, Msg(task.reply))
  /\ microtasks' = Tail(microtasks)
  /\ bcast' = << >>
  /\ UNCHANGED <<connVars, hookVars, procVars, cryptoVars>>

\* 'ping': handlePing
handlePing(c) ==
  /\ Receives(c)
  /\ step' = Step("ping", c, Nil, Nil)
  /\ sent' = sendToClient(readyState, c, Msg("pong"))
  /\ bcast' = << >>
  /\ UNCHANGED <<connVars, hookVars, procVars, cryptoVars, microtasks>>

\* the text of a frame as a sequence of tokens; JSON.parse accepts an
\* object, here "{" members "}", and throws SyntaxError on everything else
FrameTokens == {"{", "}", "type:ping"}

MaxFrameLen == 3

Frames == UNION {[1..n -> FrameTokens] : n \in 0..MaxFrameLen}

JSONparseThrows(data) ==
  \/ Len(data) < 2
  \/ data[1] # "{"
  \/ data[Len(data)] # "}"
  \/ \E i \in 2..(Len(data) - 1) : data[i] \in {"{", "}"}

\* message.type of the parsed object: undefined is Nil
TypeOf(data) ==
  IF \E i \in 2..(Len(data) - 1) : data[i] = "type:ping" THEN "ping" ELSE Nil

\* handleMessage that, on a frame it cannot parse, answers every client
handleMessageCatch_Broadcasts(rs, cl, ws) ==
  broadcast(rs, cl, [Msg("error") EXCEPT !.message = "invalid format"])

\* the catch of handleMessage: the error envelope goes to ws
handleMessageCatch(rs, cl, ws) ==
  sendToClient(rs, ws, [Msg("error") EXCEPT !.message = "invalid format"])

\* handleMessage on the text of a frame: JSON.parse throws into the catch;
\* a ping is dispatched to handlePing; an object without a known type is
\* logged only
handleMessage(c, data) ==
  IF JSONparseThrows(data)
    THEN /\ Receives(c)
         /\ step' = Step("unparsable", c, Nil, Nil)
         /\ sent' = handleMessageCatch(readyState, clients, c)
         /\ bcast' = << >>
         /\ UNCHANGED <<connVars, hookVars, procVars, cryptoVars, microtasks>>
    ELSE IF TypeOf(data) = "ping"
      THEN handlePing(c)
      ELSE /\ Receives(c)
           /\ step' = Step("unknown", c, Nil, Nil)
           /\ sent' = EmptyBag
           /\ bcast' = << >>
           /\ UNCHANGED <<connVars, hookVars, procVars, cryptoVars, microtasks>>

\* 'use_invite': handleUseInvite
handleUseInvite(c, inviteId, userDid) ==
  /\ Receives(c)
  /\ step' = Step("use_invite", c, userDid, Nil)
  /\ bcast' = << >>
  /\ sent' = IF inviteId = Nil \/ userDid = Nil
               THEN sendToClient(readyState, c,
                      [Msg("error") EXCEPT !.message = "inviteId or userDid missing"])
               ELSE sendToClient(readyState, c,
                      [Msg("invite_used") EXCEPT !.success = "true"])
  /\ UNCHANGED <<connVars, hookVars, procVars, cryptoVars, microtasks>>

\* 'revoke_invite': handleRevokeInvite
handleRevokeInvite(c, inviteId) ==
  /\ Receives(c)
  /\ step' = Step("revoke_invite", c, Nil, Nil)
  /\ bcast' = << >>
  /\ sent' = IF inviteId = Nil
               THEN sendToClient(readyState, c,
                      [Msg("error") EXCEPT !.message = "inviteId missing"])
               ELSE sendToClient(readyState, c,
                      [Msg("invite_revoked") EXCEPT !.success = "true"])
  /\ UNCHANGED <<connVars, hookVars, procVars, cryptoVars, microtasks>>

\* 'list_invites': handleListInvites
handleListInvites(c, chatId) ==
  /\ Receives(c)
  /\ step' = Step("list_invites", c, Nil, chatId)
  /\ bcast' = << >>
  /\ sent' = IF chatId = Nil
               THEN sendToClient(readyState, c,
                      [Msg("error") EXCEPT !.message = "chatId missing"])
               ELSE sendToClient(readyState, c,
                      [Msg("invites_list") EXCEPT !.chatId = chatId])
  /\ UNCHANGED <<connVars, hookVars, procVars, cryptoVars, microtasks>>

\* handleChatMessage that relays only while no webhook delivery is in progress
handleChatMessage_WaitsForWebhook(c, chatId, content, sender, timestamp) ==
  /\ Receives(c)
  /\ LET senderDid == DidOf(clientDids, c)
         message == [Msg("chat_message") EXCEPT
                       !.chatId = chatId, !.content = content,
                       !.sender = sender, !.timestamp = timestamp]
         enriched == enrichedMessage(message, senderDid)
     IN  /\ step' = [Step("chat_message", c, Nil, chatId) EXCEPT !.env = message]
         /\ IF senderDid = Nil
              THEN /\ sent' = sendToClient(readyState, c,
                                [Msg("error") EXCEPT !.message = "not authenticated"])
                   /\ bcast' = << >>
                   /\ UNCHANGED triggers
              ELSE /\ chatId # Nil /\ Triggers(webhooks, chatId) => HasRoom(triggers, content)
                   /\ bcast' = << enriched >>
                   /\ sent' = IF triggers = EmptyBag
                                THEN BroadcastAll(readyState, clients, bcast')
                                ELSE EmptyBag
                   /\ triggers' = IF chatId # Nil
                                    THEN triggerWebhook(webhooks, triggers, chatId, enriched)
                                    ELSE triggers
  /\ UNCHANGED <<connVars, webhooks, procVars, cryptoVars, microtasks>>

\* 'chat_message': handleChatMessage
handleChatMessage(c, chatId, content, sender, timestamp) ==
  /\ Receives(c)
  /\ LET senderDid == DidOf(clientDids, c)
         message == [Msg("chat_message") EXCEPT
                       !.chatId = chatId, !.content = content,
                       !.sender = sender, !.timestamp = timestamp]
         enriched == enrichedMessage(message, senderDid)
     IN  /\ step' = [Step("chat_message", c, Nil, chatId) EXCEPT !.env = message]
         /\ IF senderDid = Nil
              THEN /\ sent' = sendToClient(readyState, c,
                                [Msg("error") EXCEPT !.message = "not authenticated"])
                   /\ bcast' = << >>
                   /\ UNCHANGED triggers
              ELSE /\ chatId # Nil /\ Triggers(webhooks, chatId) => HasRoom(triggers, content)
                   /\ bcast' = << enriched >>
                   /\ sent' = BroadcastAll(readyState, clients, bcast')
                   /\ triggers' = IF chatId # Nil
                                    THEN triggerWebhook(webhooks, triggers, chatId, enriched)
                                    ELSE triggers
  /\ UNCHANGED <<connVars, webhooks, procVars, cryptoVars, microtasks>>

\* 'encrypted_chat': handleEncryptedChat.  After the forwarding and the
\* acknowledgement, the argument of triggerWebhook reads toDid, which is
\* declared nowhere: the ReferenceError is thrown before triggerWebhook is
\* called and the catch branch sends encrypted_chat_error
handleEncryptedChat(c, chatId, encryptedPayload, timestamp) ==
  /\ Receives(c)
  /\ bcast' = << >>
  /\ LET senderDid == DidOf(clientDids, c)
         message == [Msg("encrypted_chat") EXCEPT
                       !.chatId = chatId, !.encryptedPayload = encryptedPayload,
                       !.timestamp = timestamp]
         forwarded == [Msg("encrypted_chat") EXCEPT
                         !.chatId = chatId, !.encryptedPayload = encryptedPayload,
                         !.sender = senderDid, !.timestamp = timestamp]
         recipients == encryptedRecipients(readyState, clients, clientDids, c)
         thrown == chatId # Nil
     IN  /\ step' = [Step("encrypted_chat", c, Nil, chatId) EXCEPT !.env = message]
         /\ IF senderDid = Nil
              THEN sent' = sendToClient(readyState, c,
                             [Msg("error") EXCEPT !.message = "not authenticated"])
              ELSE IF chatId = Nil \/ encryptedPayload = Nil
                THEN sent' = sendToClient(readyState, c,
                               [Msg("error") EXCEPT
                                  !.message = "chatId and encryptedPayload required"])
                ELSE sent' =
                       SetToBag({[to |-> client, env |-> forwarded] : client \in recipients})
                       (+) sendToClient(readyState, c,
                             [Msg("encrypted_chat_sent") EXCEPT
                                !.chatId = chatId, !.timestamp = ServerTime])
                       (+) (IF thrown
                              THEN sendToClient(readyState, c,
                                     [Msg("encrypted_chat_error") EXCEPT
                                        !.message = "send failed"])
                              ELSE EmptyBag)
  /\ UNCHANGED <<connVars, hookVars, procVars, cryptoVars, microtasks>>

\* 'register_webhook': handleWebhookRegistration
handleWebhookRegistration(c, chatId, webhook, generated) ==
  /\ Receives(c)
  /\ step' = Step("register_webhook", c, Nil, chatId)
  /\ bcast' = << >>
  /\ LET senderDid == DidOf(clientDids, c)
     IN  IF senderDid = Nil
           THEN /\ sent' = sendToClient(readyState, c,
                             [Msg("error") EXCEPT !.message = "not authenticated"])
                /\ UNCHANGED webhooks
           ELSE IF webhook = NoInput
             THEN /\ sent' = sendToClient(readyState, c,
                               [Msg("webhook_error") EXCEPT !.message = "TypeError"])
                  /\ UNCHANGED webhooks
             ELSE LET config == registerWebhook(chatId, senderDid, webhook, generated)
                  IN  /\ webhooks' = MapSet(webhooks, chatId, config)
                      /\ sent' = sendToClient(readyState, c,
                                   [Msg("webhook_registered") EXCEPT
                                      !.chatId = chatId,
                                      !.webhook = <<config.url, config.secret, config.active>>])
  /\ UNCHANGED <<connVars, triggers, procVars, cryptoVars, microtasks>>

\* 'remove_webhook': handleWebhookRemoval
handleWebhookRemoval(c, chatId) ==
  /\ Receives(c)
  /\ step' = Step("remove_webhook", c, Nil, chatId)
  /\ bcast' = << >>
  /\ LET senderDid == DidOf(clientDids, c)
         result == removeWebhook(webhooks, chatId, senderDid)
     IN  IF senderDid = Nil
           THEN /\ sent' = sendToClient(readyState, c,
                             [Msg("error") EXCEPT !.message = "not authenticated"])
                /\ UNCHANGED webhooks
           ELSE IF result = "ok"
             THEN /\ webhooks' = MapDelete(webhooks, chatId)
                  /\ sent' = sendToClient(readyState, c,
                               [Msg("webhook_removed") EXCEPT !.chatId = chatId])
             ELSE /\ sent' = sendToClient(readyState, c,
                               [Msg("webhook_error") EXCEPT !.message = result])
                  /\ UNCHANGED webhooks
  /\ UNCHANGED <<connVars, triggers, procVars, cryptoVars, microtasks>>

\* testWebhook: its result.  With an active configuration it calls
\* this.sendWebhook, which WebhookManager does not define; the TypeError is
\* caught and the result is false
testWebhook(wh, chatId) ==
  IF chatId \notin DOMAIN wh THEN FALSE
  ELSE IF ~wh[chatId].active THEN FALSE
  ELSE FALSE

\* 'configure_webhook': handleConfigureWebhook.  It calls
\* registerWebhook(chatId, {url, events, ownerDid}) with two arguments, so
\* webhookConfig is undefined and registerWebhook throws before it stores
handleConfigureWebhook(c, chatId, webhook) ==
  /\ Receives(c)
  /\ step' = [Step("configure_webhook", c, Nil, chatId) EXCEPT
                !.env = [Msg("configure_webhook") EXCEPT
                           !.chatId = chatId,
                           !.webhook = IF webhook = NoInput THEN << >>
                                                            ELSE << webhook.url >>]]
  /\ bcast' = << >>
  /\ LET ownerDid == DidOf(clientDids, c)
         webhookConfig == NoInput
     IN  IF ownerDid = Nil \/ chatId = Nil \/ webhook = NoInput
           THEN sent' = sendToClient(readyState, c,
                          [Msg("error") EXCEPT !.message = "DID, chatId or webhook missing"])
           ELSE IF webhookConfig = NoInput
             THEN sent' = sendToClient(readyState, c,
                            [Msg("error") EXCEPT !.message = "configure failed: TypeError"])
             ELSE sent' = sendToClient(readyState, c,
                            [Msg("webhook_configured") EXCEPT
                               !.chatId = chatId, !.success = "true"])
  /\ UNCHANGED <<connVars, hookVars, procVars, cryptoVars, microtasks>>

\* 'test_webhook': handleTestWebhook
handleTestWebhook(c, chatId) ==
  /\ Receives(c)
  /\ step' = Step("test_webhook", c, Nil, chatId)
  /\ bcast' = << >>
  /\ LET ownerDid == DidOf(clientDids, c)
     IN  IF ownerDid = Nil \/ chatId = Nil
           THEN sent' = sendToClient(readyState, c,
                          [Msg("error") EXCEPT !.message = "DID or chatId missing"])
           ELSE sent' = sendToClient(readyState, c,
                          [Msg("webhook_test_result") EXCEPT
                             !.chatId = chatId,
                             !.success = IF testWebhook(webhooks, chatId)
                                           THEN "true" ELSE "false"])
  /\ UNCHANGED <<connVars, hookVars, procVars, cryptoVars, microtasks>>

\* ------------------------------------------------------------------------
\* Webhook delivery

\* the continuation of one triggerWebhook call that shares its attempt
\* counter and timer with the other calls in progress
Continue_SharedAttempt(tg, tr, after) ==
  LET others == tg (-) SetToBag({tr})
      moved == {[t EXCEPT !.phase = after.phase, !.attempt = after.attempt,
                          !.delay = after.delay] : t \in BagToSet(others)}
  IN  IF after.phase \in {"done", "dropped"}
        THEN EmptyBag
        ELSE SetToBag(moved \cup {after})

\* the continuation of one triggerWebhook call: webhook, payload and attempt
\* are variables of that call's closures, so only its own record changes;
\* a trigger that is delivered or dropped leaves nothing behind
Continue(tg, tr, after) ==
  (tg (-) SetToBag({tr}))
  (+) (IF after.phase \in {"done", "dropped"} THEN EmptyBag ELSE SetToBag({after}))

\* a catch branch that tells every chat connection of the failed delivery
reportDeliveryError_Broadcasts(rs, cl, tr) ==
  BroadcastAll(rs, cl, << [Msg("webhook_error") EXCEPT !.chatId = tr.payload.chatId] >>)

\* the catch branches of triggerWebhook and of the retry callback: the
\* error goes to console.error; the envelopes they transmit
reportDeliveryError(rs, cl, tr) == EmptyBag

\* httpResponse that, after a failed request, issues the retry at once and
\* schedules it as well
httpResponse_ResendsAtOnce(tr, status) ==
  /\ BagIn(tr, triggers)
  /\ tr.phase = "inflight"
  /\ LET failed == [tr EXCEPT !.failures = @ + 1,
                              !.reqs = Append(@, sendWebhookRequest(tr.webhook, tr.payload))]
         after ==
           IF Resolves(status) THEN [tr EXCEPT !.phase = "done"]
           ELSE IF tr.attempt = 0 THEN addToRetryQueue(failed, 1)
           ELSE IF tr.attempt < tr.webhook.retryAttempts
                  THEN addToRetryQueue(failed, tr.attempt + 1)
                  ELSE [failed EXCEPT !.phase = "dropped"]
     IN  /\ triggers' = Continue(triggers, tr, after)
         /\ step' = [Step("http_response", 0, Nil, tr.payload.chatId)
                       EXCEPT !.status = status, !.tr = after]
  /\ sent' = EmptyBag
  /\ bcast' = << >>
  /\ UNCHANGED <<connVars, webhooks, procVars, cryptoVars, microtasks>>

\* the outcome of the request in flight for trigger t: the promise of
\* sendWebhookRequest resolves or rejects, and the continuation in
\* triggerWebhook (attempt 0) or in the retry callback (attempt >= 1) runs.
\* A trigger that is delivered or dropped leaves nothing behind: it is no
\* longer in progress and only step.tr shows how it ended
httpResponse(tr, status) ==
  /\ BagIn(tr, triggers)
  /\ tr.phase = "inflight"
  /\ LET failed == [tr EXCEPT !.failures = @ + 1]
         after ==
           IF Resolves(status) THEN [tr EXCEPT !.phase = "done"]
           ELSE IF tr.attempt = 0 THEN addToRetryQueue(failed, 1)
           ELSE IF tr.attempt < tr.webhook.retryAttempts
                  THEN addToRetryQueue(failed, tr.attempt + 1)
                  ELSE [failed EXCEPT !.phase = "dropped"]
     IN  /\ triggers' = Continue(triggers, tr, after)
         /\ step' = [Step("http_response", 0, Nil, tr.payload.chatId)
                       EXCEPT !.status = status, !.tr = after]
  /\ sent' = IF Resolves(status) THEN EmptyBag
             ELSE reportDeliveryError(readyState, clients, tr)
  /\ bcast' = << >>
  /\ UNCHANGED <<connVars, webhooks, procVars, cryptoVars, microtasks>>

\* a setTimeout callback that issues no request and leaves the retry
\* scheduled
retryTimer_NeverSends(tr) ==
  /\ BagIn(tr, triggers)
  /\ tr.phase = "scheduled"
  /\ UNCHANGED triggers
  /\ step' = [Step("retry", 0, Nil, tr.payload.chatId) EXCEPT !.tr = tr]
  /\ sent' = EmptyBag
  /\ bcast' = << >>
  /\ UNCHANGED <<connVars, webhooks, procVars, cryptoVars, microtasks>>

\* the setTimeout callback of addToRetryQueue: the retry request is issued
retryTimer(tr) ==
  /\ BagIn(tr, triggers)
  /\ tr.phase = "scheduled"
  /\ LET after == [tr EXCEPT !.phase = "inflight",
                             !.reqs = Append(@, sendWebhookRequest(tr.webhook, tr.payload))]
     IN  /\ triggers' = Continue(triggers, tr, after)
         /\ step' = [Step("retry", 0, Nil, tr.payload.chatId) EXCEPT !.tr = after]
  /\ sent' = EmptyBag
  /\ bcast' = << >>
  /\ UNCHANGED <<connVars, webhooks, procVars, cryptoVars, microtasks>>

\* ------------------------------------------------------------------------
\* Process-level faults (ChatServer.setupGracefulShutdown)

\* what wss.close() may do to a client socket: every version of ws stops
\* the listener; older versions also terminate() the clients
wssClose(rs, terminates) ==
  [c \in Conns |-> IF terminates /\ rs[c] = "OPEN" THEN "CLOSING" ELSE rs[c]]

\* the 'uncaughtException' and 'unhandledRejection' handlers:
\* this.stop().then(() => process.exit(1)).  stop() runs to completion in the
\* handler and the callback with process.exit is queued as a microtask
processFault(kind, terminates) ==
  /\ nodeProcess = "up"
  /\ IF isRunning
       THEN /\ readyState' = wssClose(readyState, terminates)
            /\ isRunning' = FALSE
       ELSE UNCHANGED <<readyState, isRunning>>
  /\ nodeProcess' = "exiting"
  /\ step' = Step(kind, 0, Nil, Nil)
  /\ sent' = EmptyBag
  /\ bcast' = << >>
  /\ UNCHANGED <<clients, clientDids, onlineUsers, connectedClients, isAlive, timers, hookVars, cryptoVars, microtasks>>

\* process.exit that leaves the sockets of the process as they are
processExit_LeavesSockets ==
  /\ nodeProcess = "exiting"
  /\ nodeProcess' = "exited"
  /\ step' = Step("exit", 0, Nil, Nil)
  /\ sent' = EmptyBag
  /\ bcast' = << >>
  /\ UNCHANGED <<connVars, hookVars, isRunning, cryptoVars, microtasks>>

\* process.exit(1): the process ends without running another handler and
\* the operating system closes its sockets
processExit ==
  /\ nodeProcess = "exiting"
  /\ nodeProcess' = "exited"
  /\ readyState' = [c \in Conns |-> IF readyState[c] \in {"OPEN", "CLOSING"}
                                      THEN "CLOSED" ELSE readyState[c]]
  /\ step' = Step("exit", 0, Nil, Nil)
  /\ sent' = EmptyBag
  /\ bcast' = << >>
  /\ UNCHANGED <<clients, clientDids, onlineUsers, connectedClients, isAlive, timers,
                 hookVars, isRunning, cryptoVars, microtasks>>

\* ------------------------------------------------------------------------
\* Calls of CredentialCryptoService.  A caller encrypts a credential or
\* makes a backup, keeps what it got, and later asks for it back

\* the arguments of encryptCredential and the lists of createEncryptedBackup
CredentialInputs == {Given(c) : c \in Credentials} \cup {NoCredential}

BackupInputs == {Given(c) : c \in BackupCredentials} \cup {NoCredential}

BackupLists == UNION {[1..n -> BackupInputs] : n \in 0..MaxCredentials}

\* a crypto call leaves the server as it is
CryptoCall(call, userDid) ==
  /\ step' = Step(call, 0, userDid, Nil)
  /\ sent' = EmptyBag
  /\ bcast' = << >>
  /\ UNCHANGED <<connVars, hookVars, procVars, microtasks>>

\* await encryptCredential(userDid, credential)
callEncryptCredential(userDid, credential, salt) ==
  /\ LET r == encryptCredential(userDid, credential, salt)
     IN  /\ outcome' = [r EXCEPT !.args = <<userDid>>]
         /\ held' = IF r.ok
                      THEN [kind |-> "credential", blob |-> r.value[1], userDid |-> userDid,
                            input |-> << credential.object >>, password |-> Nil]
                      ELSE held
  /\ CryptoCall("encryptCredential", userDid)

\* a byte of the stored ciphertext changes; the checksum stays
ciphertextChanged ==
  /\ held.kind = "credential"
  /\ ~held.blob.encrypted.flipped
  /\ held' = [held EXCEPT !.blob.encrypted.flipped = TRUE]
  /\ outcome' = NoResult
  /\ CryptoCall("ciphertextChanged", Nil)

\* await decryptCredential(userDid, blob)
callDecryptCredential(userDid, garble) ==
  /\ held.kind = "credential"
  /\ outcome' = [decryptCredential(userDid, held.blob, garble) EXCEPT !.args = <<userDid>>]
  /\ UNCHANGED held
  /\ CryptoCall("decryptCredential", userDid)

\* await validateCredentialIntegrity(blob): the error field carries the
\* valid field of the result
callValidateCredentialIntegrity ==
  /\ held.kind = "credential"
  /\ outcome' = [Returned("validateCredentialIntegrity", << >>) EXCEPT
                   !.error = IF validateCredentialIntegrity(held.blob)
                               THEN "valid" ELSE "invalid"]
  /\ UNCHANGED held
  /\ CryptoCall("validateCredentialIntegrity", Nil)

\* await createEncryptedBackup(userDid, credentials, backupPassword)
callCreateEncryptedBackup(userDid, credentials, backupPassword, salt) ==
  /\ LET r == createEncryptedBackup(userDid, credentials, backupPassword, salt)
     IN  /\ outcome' = [r EXCEPT !.args = <<userDid, backupPassword>>]
         /\ held' = IF r.ok
                      THEN [kind |-> "backup", blob |-> r.value[1], userDid |-> userDid,
                            input |-> [i \in DOMAIN credentials |-> credentials[i].object],
                            password |-> backupPassword]
                      ELSE held
  /\ CryptoCall("createEncryptedBackup", userDid)

\* await restoreEncryptedBackup(userDid, backup, backupPassword)
callRestoreEncryptedBackup(userDid, backupPassword, garble) ==
  /\ held.kind = "backup"
  /\ outcome' = [restoreEncryptedBackup(userDid, held.blob, backupPassword, garble)
                   EXCEPT !.args = <<userDid, backupPassword>>]
  /\ UNCHANGED held
  /\ CryptoCall("restoreEncryptedBackup", userDid)

\* ------------------------------------------------------------------------
\* Direct calls of DIDCommService, as IntegrationTest.testDIDCommService
\* makes them: the client object carries a did and a ws, either may be null

\* identities of directly registered clients
RegistryDIDs == DIDs \cup {"did:key:test123"}

\* a direct call leaves the server and the credential store as they are
RegistryCall(call, did, ws) ==
  /\ step' = Step(call, ws, did, Nil)
  /\ sent' = EmptyBag
  /\ bcast' = << >>
  /\ UNCHANGED <<readyState, clients, clientDids, onlineUsers, isAlive, timers,
                 hookVars, procVars, held, microtasks>>

\* service.registerClient({ did, ws })
callRegisterClient(did, ws) ==
  /\ connectedClients' = registerClient(connectedClients, did, ws)
  /\ outcome' = IF registerClientThrows(did, ws)
                  THEN Thrown("registerClient", "Cliente deve ter DID e WebSocket")
                  ELSE Returned("registerClient", << >>)
  /\ RegistryCall("registerClient", did, ws)

\* service.unregisterClient(did)
callUnregisterClient(did) ==
  /\ connectedClients' = unregisterClient(connectedClients, did)
  /\ outcome' = Returned("unregisterClient", << >>)
  /\ RegistryCall("unregisterClient", did, NoSocket)

\* service.cleanup()
callCleanup ==
  /\ connectedClients' = didCommCleanup(connectedClients)
  /\ outcome' = Returned("cleanup", << >>)
  /\ RegistryCall("cleanup", Nil, NoSocket)

\* ------------------------------------------------------------------------
\* Specifications

\* relay and presence: clients connect, authenticate, chat, ping and
\* disconnect; no webhook is registered and the sweep does not run
Next ==
  \/ \E c \in Conns : handleConnection(c)
  \/ \E c \in Conns : transportClosing(c)
  \/ \E c \in Conns : handleDisconnection(c)
  \/ \E c \in Conns, did \in DIDs \cup {Nil} : handleAuthentication(c, did)
  \/ \E c \in Conns, chatId \in Chats \cup {Nil}, content \in Contents :
       handleChatMessage(c, chatId, content, Nil, Nil)
  \/ \E c \in Conns : handlePing(c)
  \/ \E c \in Conns, inviteId \in Invites \cup {Nil}, userDid \in DeliveryDIDs \cup {Nil} :
       handleUseInvite(c, inviteId, userDid)
  \/ \E c \in Conns, inviteId \in Invites \cup {Nil} : handleRevokeInvite(c, inviteId)
  \/ \E c \in Conns, chatId \in Chats \cup {Nil} : handleListInvites(c, chatId)

Spec == Init /\ [][Next]_vars

\* webhook configuration: clients connect, authenticate once, register and
\* remove webhooks; no chat message is sent, so nothing is delivered
NextWebhook ==
  \/ \E c \in Conns : handleConnection(c)
  \/ \E c \in Conns, did \in DIDs :
       DidOf(clientDids, c) = Nil /\ handleAuthentication(c, did)
  \/ \E c \in Conns, chatId \in Chats, webhook \in WebhookInputs \cup {NoInput},
        generated \in GeneratedSecrets :
       handleWebhookRegistration(c, chatId, webhook, generated)
  \/ \E c \in Conns, chatId \in Chats \cup {Nil} : handleWebhookRemoval(c, chatId)
  \/ \E c \in Conns, chatId \in Chats \cup {Nil}, webhook \in DeliveryInputs \cup {NoInput} :
       handleConfigureWebhook(c, chatId, webhook)
  \/ \E c \in Conns, chatId \in Chats \cup {Nil} : handleTestWebhook(c, chatId)

SpecWebhook == Init /\ [][NextWebhook]_vars

\* webhook delivery: the clients of one identity register and remove
\* webhooks and chat; the endpoint answers; retry timers fire
NextDelivery ==
  \/ \E c \in Conns : handleConnection(c)
  \/ \E c \in Conns, did \in DeliveryDIDs :
       DidOf(clientDids, c) = Nil /\ handleAuthentication(c, did)
  \/ \E c \in Conns, chatId \in Chats, content \in Contents :
       handleChatMessage(c, chatId, content, Nil, Nil)
  \/ \E c \in Conns, chatId \in Chats, webhook \in DeliveryInputs,
        generated \in GeneratedSecrets :
       handleWebhookRegistration(c, chatId, webhook, generated)
  \/ \E c \in Conns, chatId \in Chats : handleWebhookRemoval(c, chatId)
  \/ \E tr \in BagToSet(triggers), status \in Statuses : httpResponse(tr, status)
  \/ \E tr \in BagToSet(triggers) : retryTimer(tr)

SpecDelivery == Init /\ [][NextDelivery]_vars

\* concurrent triggers: one client registers webhooks and sends messages,
\* each of a content that no trigger in progress carries, so that the
\* content names the trigger; the endpoint answers; retry timers fire
requestSettles(content) ==
  \E tr \in BagToSet(triggers), status \in Statuses :
    tr.payload.event.content = content /\ httpResponse(tr, status)

timerFires(content) ==
  \E tr \in BagToSet(triggers) :
    tr.payload.event.content = content /\ retryTimer(tr)

NextTriggers ==
  \/ handleConnection(1)
  \/ \E did \in DeliveryDIDs : DidOf(clientDids, 1) = Nil /\ handleAuthentication(1, did)
  \/ \E chatId \in Chats, content \in TriggerContents :
       /\ TriggersOf(triggers, content) = EmptyBag
       /\ handleChatMessage(1, chatId, content, Nil, Nil)
  \/ \E chatId \in Chats, webhook \in TriggerInputs, generated \in GeneratedSecrets :
       handleWebhookRegistration(1, chatId, webhook, generated)
  \/ \E content \in TriggerContents : requestSettles(content)
  \/ \E content \in TriggerContents : timerFires(content)

SpecTriggers == Init /\ [][NextTriggers]_vars

\* every request is answered, fails or times out, and every timer fires
SpecTriggersLive ==
  /\ SpecTriggers
  /\ \A content \in TriggerContents : WF_vars(requestSettles(content))
  /\ \A content \in TriggerContents : WF_vars(timerFires(content))

\* reconfiguration: one client registers, replaces and removes the webhook
\* of a chat while a trigger of the chat is in progress
NextReconfigure ==
  \/ handleConnection(1)
  \/ \E did \in DeliveryDIDs : DidOf(clientDids, 1) = Nil /\ handleAuthentication(1, did)
  \/ \E chatId \in Chats, content \in ReconfigureContents :
       /\ TriggersOf(triggers, content) = EmptyBag
       /\ handleChatMessage(1, chatId, content, Nil, Nil)
  \/ \E chatId \in Chats, webhook \in ReconfigureInputs, generated \in GeneratedSecrets :
       handleWebhookRegistration(1, chatId, webhook, generated)
  \/ \E chatId \in Chats : handleWebhookRemoval(1, chatId)
  \/ \E content \in ReconfigureContents : requestSettles(content)
  \/ \E content \in ReconfigureContents : timerFires(content)

SpecReconfigure == Init /\ [][NextReconfigure]_vars

\* every request is answered, fails or times out, and every timer fires
SpecReconfigureLive ==
  /\ SpecReconfigure
  /\ \A content \in ReconfigureContents : WF_vars(requestSettles(content))
  /\ \A content \in ReconfigureContents : WF_vars(timerFires(content))

\* ordering: clients connect, authenticate once, and send didcomm_message,
\* ping and chat_message; frames may share a chunk
NextOrdering ==
  \/ \E c \in Conns : microtasks = << >> /\ handleConnection(c)
  \/ \E c \in Conns, did \in DIDs :
       /\ SameChunk(c)
       /\ DidOf(clientDids, c) = Nil
       /\ handleAuthentication(c, did)
  \/ \E c \in Conns : handleDIDCommMessage(c)
  \/ \E c \in Conns : SameChunk(c) /\ handlePing(c)
  \/ \E c \in Conns, chatId \in Chats, content \in Contents :
       SameChunk(c) /\ handleChatMessage(c, chatId, content, Nil, Nil)
  \/ runMicrotask

SpecOrdering == Init /\ [][NextOrdering]_vars

\* backoff: the clients of one identity register a webhook with many
\* retries and chat; the endpoint answers; retry timers fire
NextBackoff ==
  \/ \E c \in Conns : handleConnection(c)
  \/ \E c \in Conns, did \in DeliveryDIDs :
       DidOf(clientDids, c) = Nil /\ handleAuthentication(c, did)
  \/ \E c \in Conns, chatId \in Chats, content \in Contents :
       handleChatMessage(c, chatId, content, Nil, Nil)
  \/ \E c \in Conns, chatId \in Chats, webhook \in BackoffInputs,
        generated \in GeneratedSecrets :
       handleWebhookRegistration(c, chatId, webhook, generated)
  \/ \E tr \in BagToSet(triggers), status \in Statuses : httpResponse(tr, status)
  \/ \E tr \in BagToSet(triggers) : retryTimer(tr)

SpecBackoff == Init /\ [][NextBackoff]_vars

\* relay: clients connect, authenticate once and disconnect, and send chat
\* messages and encrypted chat messages in which they set the sender and
\* timestamp fields as they like
NextRelay ==
  \/ \E c \in Conns : handleConnection(c)
  \/ \E c \in Conns : transportClosing(c)
  \/ \E c \in Conns : handleDisconnection(c)
  \/ \E c \in Conns, did \in DIDs :
       DidOf(clientDids, c) = Nil /\ handleAuthentication(c, did)
  \/ \E c \in Conns, chatId \in Chats, content \in Contents,
        sender \in ClaimedSenders, timestamp \in ClientTimes :
       handleChatMessage(c, chatId, content, sender, timestamp)
  \/ \E c \in Conns, chatId \in Chats \cup {Nil}, encryptedPayload \in Payloads \cup {Nil},
        timestamp \in ClientTimes \ {Nil} :
       handleEncryptedChat(c, chatId, encryptedPayload, timestamp)

SpecRelay == Init /\ [][NextRelay]_vars

\* kinds of process-level fault
Faults == {"uncaughtException", "unhandledRejection"}

\* shutdown: clients connect, authenticate once, chat and disconnect until a
\* process-level fault occurs.  A handler runs only while no process.exit is
\* queued and the process has not exited
NextShutdown ==
  \/ \E c \in Conns : nodeProcess = "up" /\ handleConnection(c)
  \/ \E c \in Conns : nodeProcess = "up" /\ handleDisconnection(c)
  \/ \E c \in Conns, did \in DIDs :
       /\ nodeProcess = "up" /\ DidOf(clientDids, c) = Nil
       /\ handleAuthentication(c, did)
  \/ \E c \in Conns, chatId \in Chats, content \in Contents :
       nodeProcess = "up" /\ handleChatMessage(c, chatId, content, Nil, Nil)
  \/ \E kind \in Faults, terminates \in BOOLEAN : processFault(kind, terminates)
  \/ processExit

SpecShutdown == Init /\ [][NextShutdown]_vars

\* shutdown with its scheduling: the queued process.exit runs
SpecShutdownLive == SpecShutdown /\ WF_vars(processExit)

\* liveness sweep: connections come and go while the sweep probes them
NextSweep ==
  \/ \E c \in Conns : handleConnection(c)
  \/ \E c \in Conns : handleDisconnection(c)
  \/ \E c \in Conns, did \in DIDs : handleAuthentication(c, did)
  \/ \E c \in Conns : handlePong(c)
  \/ cleanupConnections
  \/ \E c \in Conns : sweepTimeout(c)

SpecSweep == Init /\ [][NextSweep]_vars

\* the 'close' event of a socket that terminate() has destroyed
closeTerminated(c) == readyState[c] = "CLOSING" /\ handleDisconnection(c)

\* liveness sweep with its scheduling: the interval callback keeps running,
\* every timeout it sets fires, and a destroyed socket emits 'close'
SpecSweepLive ==
  /\ SpecSweep
  /\ WF_vars(cleanupConnections)
  /\ \A c \in Conns : WF_vars(sweepTimeout(c))
  /\ \A c \in Conns : WF_vars(closeTerminated(c))

\* the client registry of DIDCommService under direct calls
NextRegistry ==
  \/ \E did \in RegistryDIDs \cup {Nil}, ws \in Conns \cup {NoSocket} :
       callRegisterClient(did, ws)
  \/ \E did \in RegistryDIDs : callUnregisterClient(did)
  \/ callCleanup

SpecRegistry == Init /\ [][NextRegistry]_vars

\* the credential store: callers encrypt, validate, decrypt, back up and
\* restore, and stored ciphertext may be damaged
NextCrypto ==
  \/ \E userDid \in DIDs \cup {Nil}, credential \in CredentialInputs, salt \in Salts :
       callEncryptCredential(userDid, credential, salt)
  \/ ciphertextChanged
  \/ \E userDid \in DIDs \cup {Nil}, garble \in Garbles :
       callDecryptCredential(userDid, garble)
  \/ callValidateCredentialIntegrity
  \/ \E userDid \in DIDs, credentials \in BackupLists, backupPassword \in Passwords,
        salt \in Salts :
       callCreateEncryptedBackup(userDid, credentials, backupPassword, salt)
  \/ \E userDid \in DIDs, backupPassword \in Passwords, garble \in Garbles :
       callRestoreEncryptedBackup(userDid, backupPassword, garble)

SpecCrypto == Init /\ [][NextCrypto]_vars

\* ------------------------------------------------------------------------
\* Properties

\* connections of the connection set currently bound to the identity
ConnectionsOf(cl, cd, did) == {c \in cl : DidOf(cd, c) = did}

\* the envelopes of a type transmitted to connection c by the last handler
DeliveredIn(bag, c, type) == {e \in BagToSet(bag) : e.to = c /\ e.env.type = type}

Delivered(c, type) == DeliveredIn(sent, c, type)

BroadcastTypes == {"chat_message", "user_online", "user_offline"}

\* C1: after any sequence of connect, authenticate, disconnect steps an
\* identity has an entry in the presence map if and only if at least one
\* connection of the connection set is authenticated under that identity.
C1_OnlineIffOpenConnection ==
  \A did \in DIDs :
    did \in DOMAIN onlineUsers <=> ConnectionsOf(clients, clientDids, did) # {}

\* C2: closing a connection of an identity while another connection of that
\* identity is still open broadcasts no user_offline; closing the last one
\* broadcasts user_offline for that identity exactly once.
C2_OfflineExactlyWhenLastCloses ==
  [][ step'.op = "close" /\ step'.did # Nil =>
        IF ConnectionsOf(clients', clientDids', step'.did) # {}
          THEN bcast' = << >>
          ELSE bcast' = << [Msg("user_offline") EXCEPT !.did = step'.did] >> ]_vars

\* C3: user_online is broadcast only when the identity goes from having no
\* authenticated connection to having its first one; authenticating a further
\* connection of an identity already online, or authenticating again on an
\* authenticated connection, broadcasts no presence event.
C3_OnlineOnlyOnFirstConnection ==
  [][ step'.op = "authenticate" /\ bcast' # << >> =>
        ConnectionsOf(clients, clientDids, step'.did) = {} ]_vars

C5_NoBroadcastToUnauthenticated ==
  \A e \in BagToSet(sent) :
    e.env.type \in BroadcastTypes => DidOf(clientDids, e.to) # Nil

\* an authentication-error reply
IsAuthError(env) ==
  \/ env.type = "auth_error"
  \/ env.type = "error" /\ env.message = "not authenticated"

NonAuthOps ==
  {"chat_message", "ping", "use_invite", "revoke_invite", "list_invites",
   "register_webhook", "remove_webhook", "configure_webhook", "test_webhook"}

\* C6: on a connection that has not authenticated, every inbound envelope
\* other than the authentication handshake is answered with an
\* authentication-error reply and nothing else is transmitted.
C6_UnauthenticatedRejected ==
  step.op \in NonAuthOps /\ DidOf(clientDids, step.conn) = Nil =>
    /\ \A e \in BagToSet(sent) : e.to = step.conn /\ IsAuthError(e.env)
    /\ readyState[step.conn] = "OPEN" => BagCardinality(sent) = 1

\* C7: a later authenticate naming a different identity on a connection
\* already bound to an identity is rejected and leaves the binding and the
\* presence sets unchanged.
C7_AlreadyBoundRejected ==
  [][ /\ step'.op = "authenticate"
      /\ step'.conn \in DOMAIN clientDids
      /\ step'.did # Nil
      /\ step'.did # clientDids[step'.conn]
      => /\ clientDids' = clientDids
         /\ onlineUsers' = onlineUsers
         /\ DeliveredIn(sent', step'.conn, "authenticated") = {} ]_vars

\* the identity that sent the envelope handled last
Requester == DidOf(clientDids, step.conn)

\* C8: remove_webhook for a chat requested by an identity other than the
\* configuration's owner is answered with an error and leaves the stored
\* configuration exactly as it was; only the owner's removal deletes it.
C8_RemoveByNonOwnerFails ==
  [][ step'.op = "remove_webhook" /\ step'.chatId \in DOMAIN webhooks =>
        LET requester == DidOf(clientDids, step'.conn)
        IN  IF requester # webhooks[step'.chatId].ownerDid
              THEN /\ webhooks' = webhooks
                   /\ DeliveredIn(sent', step'.conn, "webhook_removed") = {}
                   /\ readyState[step'.conn] = "OPEN" =>
                        \E e \in BagToSet(sent') :
                          e.to = step'.conn /\ e.env.type \in {"webhook_error", "error"}
              ELSE step'.chatId \notin DOMAIN webhooks' ]_vars

C8_Witness ==
  /\ step.op = "remove_webhook"
  /\ step.chatId \in DOMAIN webhooks
  /\ Requester \in DIDs
  /\ Requester # webhooks[step.chatId].ownerDid
  /\ \E e \in Delivered(step.conn, "webhook_error") : e.env.message = "not owner"

\* C9: register_webhook for a chat that already has a configuration owned
\* by a different identity fails and leaves the existing configuration,
\* including its owner, url and secret, unchanged.
C9_RegisterByNonOwnerFails ==
  [][ /\ step'.op = "register_webhook"
      /\ step'.chatId \in DOMAIN webhooks
      /\ DidOf(clientDids, step'.conn) # Nil
      /\ ~canConfigureWebhook(webhooks, step'.chatId, DidOf(clientDids, step'.conn))
      => /\ webhooks' = webhooks
         /\ DeliveredIn(sent', step'.conn, "webhook_registered") = {} ]_vars

\* C10: for one trigger, delivery attempts continue after each failure
\* until the first 2xx response: with retryAttempts = 3 the trigger is not
\* given up before its third attempt, and an endpoint that fails twice and
\* then answers 2xx receives exactly three requests, all with the same body
\* and each signed with the HMAC of that body under the secret of the
\* trigger's configuration.
C10_ThreeAttemptsSameSignedBody ==
  \A tr \in BagToSet(triggers) \cup {step.tr} :
    LET body == JSONstringify(tr.payload)
    IN  tr.phase # "idle" /\ tr.webhook.retryAttempts = 3 =>
          /\ Len(tr.reqs) = tr.failures + (IF tr.phase \in {"inflight", "done"} THEN 1 ELSE 0)
          /\ tr.phase = "dropped" => tr.failures > 2
          /\ tr.phase = "done" /\ tr.failures = 2 => Len(tr.reqs) = 3
          /\ \A i \in 1..Len(tr.reqs) :
               /\ tr.reqs[i].body = body
               /\ tr.reqs[i].url = tr.webhook.url
               /\ tr.reqs[i].signature = generateSignature(body, tr.webhook.secret)

C10_Witness ==
  /\ step.op = "http_response"
  /\ step.status = 200
  /\ step.tr.phase = "done"
  /\ step.tr.webhook.retryAttempts = 3
  /\ step.tr.failures = 2
  /\ Len(step.tr.reqs) = 3
  /\ ~BagIn(step.tr, triggers)

\* C11: once a request of a trigger is answered with a 2xx status the
\* trigger is finished and no further request is made for it: the answered
\* request is the last one, every earlier request of the trigger failed,
\* and the trigger is no longer in progress.  An endpoint that answers the
\* first request with 2xx has received exactly one POST, whose signature is
\* the HMAC of the sent body under the secret of the configuration.
C11_NoAttemptAfterSuccess ==
  /\ \A t \in BagToSet(triggers) :
       /\ t.phase \in {"inflight", "scheduled"}
       /\ Len(t.reqs) = t.failures + (IF t.phase = "inflight" THEN 1 ELSE 0)
  /\ step.op = "http_response" /\ Resolves(step.status) =>
       LET tr == step.tr
           last == tr.reqs[Len(tr.reqs)]
       IN  /\ tr.phase = "done"
           /\ ~BagIn(tr, triggers)
           /\ Len(tr.reqs) = tr.failures + 1
           /\ last.url = tr.webhook.url
           /\ last.body = JSONstringify(tr.payload)
           /\ last.signature = generateSignature(last.body, tr.webhook.secret)

C11_Witness ==
  /\ step.op = "http_response"
  /\ step.status = 200
  /\ step.tr.phase = "done"
  /\ step.tr.failures = 0
  /\ Len(step.tr.reqs) = 1
  /\ step.tr.reqs[1].signature =
       generateSignature(step.tr.reqs[1].body, step.tr.webhook.secret)
  /\ triggers = EmptyBag

\* C12: for every trigger the number of HTTP requests issued (the first
\* request plus all retries) never exceeds the retryAttempts of its
\* configuration.
C12_AttemptsWithinRetryAttempts ==
  \A tr \in BagToSet(triggers) \cup {step.tr} :
    tr.phase # "idle" => Len(tr.reqs) <= tr.webhook.retryAttempts

\* a well-formed encrypted_chat from an authenticated connection was handled
EncryptedChatHandled ==
  /\ step.op = "encrypted_chat"
  /\ Requester # Nil
  /\ step.env.chatId # Nil
  /\ step.env.encryptedPayload # Nil

\* C13: an encrypted_chat with chatId and encryptedPayload from an
\* authenticated connection is forwarded, once, to every other connection
\* that is authenticated and open, with the payload as the client sent it and
\* the sender set to the sending connection's identity; it is forwarded
\* neither to the sender nor to a connection that has not authenticated.
C13_EncryptedForwardedToOthers ==
  EncryptedChatHandled =>
    /\ \A r \in clients \ {step.conn} :
         readyState[r] = "OPEN" /\ DidOf(clientDids, r) # Nil =>
           /\ Cardinality(Delivered(r, "encrypted_chat")) = 1
           /\ \A e \in Delivered(r, "encrypted_chat") : CopiesIn(e, sent) = 1
    /\ \A e \in BagToSet(sent) :
         e.env.type = "encrypted_chat" =>
           /\ e.to # step.conn
           /\ DidOf(clientDids, e.to) # Nil
           /\ e.env.chatId = step.env.chatId
           /\ e.env.encryptedPayload = step.env.encryptedPayload
           /\ e.env.sender = Requester

C13_Witness ==
  /\ EncryptedChatHandled
  /\ \E r \in clients \ {step.conn} :
       /\ readyState[r] = "OPEN" /\ DidOf(clientDids, r) # Nil
       /\ \E e \in Delivered(r, "encrypted_chat") :
            e.env.encryptedPayload \in Payloads /\ e.env.sender = Requester
  /\ Delivered(step.conn, "encrypted_chat") = {}

\* C14: a well-formed encrypted_chat from an authenticated connection makes
\* the sender receive exactly one envelope, an encrypted_chat_sent for that
\* chat, and no error envelope.
C14_ExactlyOneSentReply ==
  EncryptedChatHandled /\ readyState[step.conn] = "OPEN" =>
    /\ \A e \in BagToSet(sent) :
         e.to = step.conn =>
           /\ e.env.type = "encrypted_chat_sent"
           /\ e.env.chatId = step.env.chatId
           /\ CopiesIn(e, sent) = 1
    /\ Cardinality(Delivered(step.conn, "encrypted_chat_sent")) = 1

\* C17: the sender of every relayed chat_message is the identity the
\* sending connection authenticated as and its timestamp is the server's,
\* whatever sender and timestamp the client put in the envelope: the relayed
\* envelope is the one any other choice of these two fields would have
\* produced.
C17_SenderStampedByServer ==
  step.op = "chat_message" /\ Requester # Nil =>
    /\ \A e \in BagToSet(sent) :
         e.env.type = "chat_message" =>
           e.env.sender = Requester /\ e.env.timestamp = ServerTime
    /\ \A sender \in ClaimedSenders, timestamp \in ClientTimes :
         bcast = << enrichedMessage([step.env EXCEPT !.sender = sender,
                                                    !.timestamp = timestamp],
                                    Requester) >>

C17_Witness ==
  /\ step.op = "chat_message"
  /\ Requester # Nil
  /\ step.env.sender \in DIDs \ {Requester}
  /\ step.env.timestamp \in ClientTimes \ {Nil}
  /\ \E r \in clients \ {step.conn} :
       \E e \in Delivered(r, "chat_message") :
         e.env.sender = Requester /\ e.env.timestamp = ServerTime

\* C15: test_webhook on a chat with an active configuration issues one test
\* POST through the delivery path, and the result is reported only once the
\* endpoint has answered it (success = true iff the status is in [200,300)).
C15_TestPostsAndReportsOutcome ==
  step.op = "test_webhook" /\ Requester # Nil /\ Triggers(webhooks, step.chatId) =>
    /\ \E tr \in BagToSet(triggers) :
         /\ tr.phase = "inflight"
         /\ tr.webhook = webhooks[step.chatId]
         /\ tr.payload.event.type = "test"
         /\ Len(tr.reqs) = 1
    /\ Delivered(step.conn, "webhook_test_result") = {}

\* C16: a configure_webhook from an authenticated connection, for a chat
\* that has no configuration or one owned by the sender, stores a
\* configuration for the chat whose owner is the sender's identity and whose
\* url is the supplied url, and is answered with webhook_configured.
C16_ConfigureStoresConfiguration ==
  [][ /\ step'.op = "configure_webhook"
      /\ DidOf(clientDids, step'.conn) # Nil
      /\ step'.chatId # Nil
      /\ step'.env.webhook # << >>
      /\ canConfigureWebhook(webhooks, step'.chatId, DidOf(clientDids, step'.conn))
      => /\ step'.chatId \in DOMAIN webhooks'
         /\ webhooks'[step'.chatId].ownerDid = DidOf(clientDids, step'.conn)
         /\ webhooks'[step'.chatId].url = step'.env.webhook[1]
         /\ readyState[step'.conn] = "OPEN" =>
              DeliveredIn(sent', step'.conn, "webhook_configured") # {} ]_vars

\* C18: the handler of a chat_message from an authenticated connection
\* transmits the message to every open connection in the step in which the
\* webhook request for it is issued, before any answer to that request, and
\* does so whatever deliveries are outstanding: at the end of the step every
\* open connection has the message and, when the chat has an active
\* configuration, a trigger for this message is in progress whose single
\* request is still unanswered.
C18_BroadcastNotDelayedByWebhook ==
  step.op = "chat_message" /\ Requester # Nil =>
    /\ Len(bcast) = 1
    /\ \A r \in clients :
         readyState[r] = "OPEN" =>
           CopiesIn([to |-> r, env |-> bcast[1]], sent) = 1
    /\ Triggers(webhooks, step.chatId) =>
         \E tr \in BagToSet(triggers) :
           /\ tr.phase = "inflight" /\ tr.failures = 0 /\ Len(tr.reqs) = 1
           /\ tr.payload.event = bcast[1]

C18_Witness ==
  /\ step.op = "chat_message"
  /\ Requester # Nil
  /\ Delivered(step.conn, "chat_message") # {}
  /\ ~Triggers(webhooks, step.chatId)
  /\ \E tr \in BagToSet(triggers) : tr.phase \in {"inflight", "scheduled"}

\* the sweep has terminated connection c, which did not answer its probe
Terminated(c) ==
  /\ step.op = "timeout" /\ step.conn = c
  /\ ~isAlive[c] /\ readyState[c] = "CLOSING"

\* the 'close' handler of connection c has just run: c is closed and gone
\* from the connection set, from the connection-to-identity map and from the
\* presence set of the identity it was bound to
Unregistered(c) ==
  /\ step.op = "close" /\ step.conn = c
  /\ readyState[c] = "CLOSED"
  /\ c \notin clients
  /\ c \notin DOMAIN clientDids
  /\ step.did \in DOMAIN onlineUsers => c \notin onlineUsers[step.did]

\* C19: a connection that does not answer a liveness probe is eventually
\* closed by the sweep and removed from the connection set, from the
\* connection-to-identity map and from its identity's presence set; and when
\* it was the last connection of its identity, its removal broadcasts
\* user_offline for that identity.
C19_DeadConnectionSwept ==
  /\ \A c \in Conns : Terminated(c) ~> Unregistered(c)
  /\ [][ /\ step'.op = "close" /\ step'.did # Nil
         /\ readyState[step'.conn] = "CLOSING" /\ ~isAlive[step'.conn]
         /\ ConnectionsOf(clients', clientDids', step'.did) = {}
         => bcast' = << [Msg("user_offline") EXCEPT !.did = step'.did] >> ]_vars

Decrypted(userDid) ==
  /\ held.kind = "credential"
  /\ outcome.call = "decryptCredential"
  /\ outcome.args = <<userDid>>

\* the last call was restoreEncryptedBackup(userDid, backup, backupPassword)
\* on the held backup
Restored(userDid, backupPassword) ==
  /\ held.kind = "backup"
  /\ outcome.call = "restoreEncryptedBackup"
  /\ outcome.args = <<userDid, backupPassword>>

C22_OtherIdentityOwnershipError ==
  \A userDid \in DIDs :
    (Decrypted(userDid) /\ userDid # held.blob.userDid) =>
       /\ ~outcome.ok
       /\ outcome.value = << >>
       /\ outcome.error = "Credencial não pertence ao usuário"

\* C23: decryptCredential on a blob whose ciphertext was changed after the
\* checksum was stored returns no credential and throws an error of its own,
\* not the error of the other failures
C23_ChangedCiphertextIntegrityError ==
  (Decrypted(held.userDid) /\ held.blob.encrypted.flipped) =>
     /\ ~validateCredentialIntegrity(held.blob)
     /\ ~outcome.ok
     /\ outcome.error # "Falha na descriptografia da credencial"

getConnectedClients(cc) == DOMAIN cc

\* C25: after registerClient is called with a client carrying a DID, the DID
\* is in getConnectedClients(), and it stays there until unregisterClient is
\* called for it or the service is cleaned up
C25_RegisteredUntilUnregistered ==
  /\ [](\A did \in RegistryDIDs :
          (step.op = "registerClient" /\ step.did = did) =>
             did \in getConnectedClients(connectedClients))
  /\ [][\A did \in RegistryDIDs :
          (did \in getConnectedClients(connectedClients)
             /\ did \notin getConnectedClients(connectedClients')) =>
          \/ step'.op = "unregisterClient" /\ step'.did = did
          \/ step'.op = "cleanup"]_vars

\* ------------------------------------------------------------------------
\* Retry delays

\* C26: the delay scheduled before retry n is min(MaxDelay, BaseDelay * 2^n)
\* plus a jitter in [0, JitterBound), whatever retryAttempts is: it never
\* exceeds MaxDelay + JitterBound
C26_DelayCappedWithJitter ==
  \A tr \in BagToSet(triggers) :
    tr.phase = "scheduled" =>
      LET jitter == tr.delay - Min(MaxDelay, BaseDelay * 2^tr.attempt)
      IN  /\ jitter >= 0
          /\ jitter < JitterBound
          /\ tr.delay <= MaxDelay + JitterBound

\* C27: every stored webhook configuration has retryAttempts >= 1, whatever
\* the registration supplied (absent, zero, negative)
C27_StoredRetryAttemptsPositive ==
  \A chatId \in DOMAIN webhooks : webhooks[chatId].retryAttempts >= 1

\* ------------------------------------------------------------------------
\* Triggers in progress

\* the message the last step was about
StepContent ==
  IF step.op = "chat_message" THEN step.env.content
  ELSE step.tr.payload.event.content

\* the trigger of the message has just ended, delivered or dropped
Finished(content) ==
  /\ step.op = "http_response"
  /\ StepContent = content
  /\ step.tr.phase \in {"done", "dropped"}

\* C28: every trigger eventually finishes, given that every request is
\* answered, fails or times out and every timer fires: it ends with a
\* delivery (a 2xx answer) or with the event dropped after a failed request
\* that no retry follows, and no retry of it stays scheduled forever
C28_EveryTriggerFinishes ==
  /\ \A content \in TriggerContents :
       (TriggersOf(triggers, content) # EmptyBag) ~> Finished(content)
  /\ [](\A content \in TriggerContents :
          Finished(content) =>
            /\ TriggersOf(triggers, content) = EmptyBag
            /\ step.tr.phase = "done" => Resolves(step.status)
            /\ step.tr.phase = "dropped" =>
                 /\ ~Resolves(step.status)
                 /\ step.tr.failures = Len(step.tr.reqs)
                 /\ step.tr.attempt >= step.tr.webhook.retryAttempts)

\* a trigger was dropped after its retry failed
C28_Witness ==
  /\ \E content \in TriggerContents : Finished(content)
  /\ step.tr.phase = "dropped"
  /\ Len(step.tr.reqs) = 2

\* C29: within one trigger at most one request is in flight: every request
\* issued but the one in flight has failed, and a retry is scheduled only
\* when the failure of every request issued so far is known
C29_OneAttemptInFlight ==
  \A tr \in BagToSet(triggers) :
    /\ tr.phase \in {"inflight", "scheduled"}
    /\ tr.phase = "inflight" => Len(tr.reqs) = tr.failures + 1
    /\ tr.phase = "scheduled" => (Len(tr.reqs) = tr.failures /\ tr.attempt = tr.failures)

\* a retry is scheduled after the first request failed, and later in flight
C29_Witness ==
  \E tr \in BagToSet(triggers) :
    tr.phase = "inflight" /\ tr.failures = 1 /\ Len(tr.reqs) = 2

\* C30: triggers on the same chat keep separate attempt counters and retry
\* timers: the record of a trigger changes only in a step of that trigger
C30_TriggersIndependent ==
  [][\A content \in TriggerContents :
       TriggersOf(triggers', content) # TriggersOf(triggers, content) =>
         StepContent' = content]_vars

\* two triggers on one chat have requests in flight at the same time, one
\* its first request and the other its retry
C30_Witness ==
  \E t1, t2 \in BagToSet(triggers) :
    /\ t1.payload.chatId = t2.payload.chatId
    /\ t1.payload.event.content # t2.payload.event.content
    /\ t1.phase = "inflight" /\ t2.phase = "inflight"
    /\ Len(t1.reqs) = 1 /\ Len(t2.reqs) = 2

\* ------------------------------------------------------------------------
\* Reconfiguration during a delivery

\* every request of the trigger went to the url, and was signed with the
\* secret, of its first request
SameTarget(tr) ==
  \A i \in DOMAIN tr.reqs :
    /\ tr.reqs[i].url = tr.reqs[1].url
    /\ tr.reqs[i].signature = tr.reqs[1].signature

\* C31: a retry scheduled for a trigger is not cancelled when the webhook
\* of the chat is removed or registered again: remove_webhook and
\* register_webhook leave the triggers in progress as they are, the
\* scheduled retry is issued, and every request of a trigger goes to the url
\* and carries the signature of the configuration the chat had when the
\* trigger fired
C31_RetrySurvivesReconfiguration ==
  /\ [][step'.op \in {"remove_webhook", "register_webhook"} => triggers' = triggers]_vars
  /\ [][\A tr \in BagToSet(triggers') :
          (step'.op = "chat_message" /\ ~BagIn(tr, triggers)) =>
             tr.reqs = << sendWebhookRequest(webhooks[step'.chatId], tr.payload) >>]_vars
  /\ [](SameTarget(step.tr) /\ \A tr \in BagToSet(triggers) : SameTarget(tr))
  /\ \A content \in ReconfigureContents :
       (\E tr \in BagToSet(TriggersOf(triggers, content)) : tr.phase = "scheduled")
         ~> (step.op = "retry" /\ StepContent = content)

\* the retry of a trigger was issued to the first url after the webhook of
\* the chat was removed or given another url
C31_Witness ==
  /\ step.op = "retry"
  /\ Len(step.tr.reqs) = 2
  /\ BagIn(step.tr, triggers)
  /\ \/ step.chatId \notin DOMAIN webhooks
     \/ webhooks[step.chatId].url # step.tr.reqs[2].url

\* ------------------------------------------------------------------------
\* Order of the envelopes of one connection

\* C32: the envelopes of one connection take effect in arrival order: when
\* a handler transmits for an envelope of a connection, no handler of an
\* earlier envelope of that connection still has a reply to send
C32_EffectsInArrivalOrder ==
  \A c \in Conns :
    (step.conn = c /\ step.op \in {"ping", "chat_message", "authenticate"}
       /\ sent # EmptyBag) =>
      \A i \in DOMAIN microtasks : microtasks[i].conn # c

\* ------------------------------------------------------------------------
\* Failed deliveries and the chat

\* C33: a failed delivery (network error, timeout, non-2xx answer, on the
\* first request or on a retry) produces no envelope to any chat connection:
\* the step that learns of the failure, schedules the retry or drops the
\* event, and the step that issues a retry, transmit and broadcast nothing
C33_FailureNotSurfaced ==
  ((step.op = "http_response" /\ ~Resolves(step.status)) \/ step.op = "retry") =>
     (sent = EmptyBag /\ bcast = << >>)

\* the retry of a trigger failed while a connection could receive
C33_Witness ==
  /\ step.op = "http_response"
  /\ ~Resolves(step.status)
  /\ step.tr.phase = "dropped"
  /\ Len(step.tr.reqs) >= 2
  /\ \E c \in Conns : Receives(c) /\ readyState[c] = "OPEN"

\* ------------------------------------------------------------------------
\* triggerWebhook without an active configuration

\* the registry with the configuration of the chat, if any, made inactive
Deactivated(wh, chatId) ==
  [x \in DOMAIN wh |-> IF x = chatId THEN [wh[x] EXCEPT !.active = FALSE] ELSE wh[x]]

\* C34: triggerWebhook on a chat with no configuration, or with one that is
\* not active, issues no request, schedules no retry and changes no state:
\* the triggers in progress are what they were, both for the call made by
\* chat_message and for the call on the registry with the chat's
\* configuration made inactive
C34_NoActiveConfigurationNoEffect ==
  /\ [](\A chatId \in Chats, content \in TriggerContents :
          LET eventData == [Msg("chat_message") EXCEPT !.chatId = chatId, !.content = content]
          IN  /\ triggerWebhook(Deactivated(webhooks, chatId), triggers, chatId, eventData)
                   = triggers
              /\ chatId \notin DOMAIN webhooks =>
                   triggerWebhook(webhooks, triggers, chatId, eventData) = triggers)
  /\ [][(step'.op = "chat_message" /\ step'.chatId \notin DOMAIN webhooks) =>
          (triggers' = triggers /\ webhooks' = webhooks)]_vars

\* an authenticated client sent a chat_message on a chat without a webhook
\* while the trigger of an earlier message was in progress
C34_Witness ==
  /\ step.op = "chat_message"
  /\ DidOf(clientDids, step.conn) # Nil
  /\ step.chatId \notin DOMAIN webhooks
  /\ bcast # << >>
  /\ triggers # EmptyBag

\* ------------------------------------------------------------------------
\* Transmission and the state of the transport

\* connections that open, authenticate once, send chat messages and pings,
\* start closing and close: the envelopes of a closing connection are still
\* handled
NextTransport ==
  \/ \E c \in Conns : handleConnection(c)
  \/ \E c \in Conns : transportClosing(c)
  \/ \E c \in Conns : handleDisconnection(c)
  \/ \E c \in Conns, did \in DIDs :
       DidOf(clientDids, c) = Nil /\ handleAuthentication(c, did)
  \/ \E c \in Conns, chatId \in Chats, content \in Contents :
       handleChatMessage(c, chatId, content, Nil, Nil)
  \/ \E c \in Conns : handlePing(c)

SpecTransport == Init /\ [][NextTransport]_vars


\* C35: no envelope is transmitted to a connection whose transport is not
\* open: every transmission of a step goes to a socket that is OPEN, and a
\* step on a connection that is closing or closed, or a broadcast with such
\* a connection among the clients, transmits nothing to it; no state holds
\* the dropped envelope, so no later step delivers it
C35_NothingSentUnlessOpen ==
  /\ [](\A m \in BagToSet(sent) : readyState[m.to] = "OPEN")
  /\ [][\A c \in Conns :
          (readyState[c] # "OPEN" /\ readyState'[c] # "OPEN") =>
             \A m \in BagToSet(sent') : m.to # c]_vars

\* a closing connection sent an envelope whose reply was dropped while
\* another connection, open, was served
C35_Witness ==
  /\ step.op \in {"ping", "chat_message"}
  /\ readyState[step.conn] = "CLOSING"
  /\ \E c \in Conns : c # step.conn /\ readyState[c] = "OPEN" /\ c \in clients
  /\ \A m \in BagToSet(sent) : m.to # step.conn

\* ------------------------------------------------------------------------
\* Frames that cannot be parsed

\* connections that open, authenticate once, register a webhook, send
\* frames of any text and close
FramesInputs == [url : {"http://h1"}, secret : {"s1"}, retryAttempts : {1}]

NextFrames ==
  \/ \E c \in Conns : handleConnection(c)
  \/ \E c \in Conns : handleDisconnection(c)
  \/ \E c \in Conns, did \in DIDs :
       DidOf(clientDids, c) = Nil /\ handleAuthentication(c, did)
  \/ \E c \in Conns, chatId \in Chats, webhook \in FramesInputs :
       handleWebhookRegistration(c, chatId, webhook, "gen")
  \/ \E c \in Conns, data \in Frames : handleMessage(c, data)

SpecFrames == Init /\ [][NextFrames]_vars

\* C36: a frame that cannot be parsed produces one error envelope to the
\* open connection that sent it and nothing to any other connection, no
\* registry, presence or webhook state changes, and the connection stays
\* open, registered and bound as it was
C36_UnparsableAnsweredToSenderOnly ==
  [][step'.op = "unparsable" =>
       /\ sent' = (IF readyState[step'.conn] = "OPEN"
                     THEN SetToBag({[to |-> step'.conn,
                                     env |-> [Msg("error") EXCEPT !.message = "invalid format"]]})
                     ELSE EmptyBag)
       /\ bcast' = << >>
       /\ UNCHANGED <<connVars, hookVars>>]_vars

\* an open authenticated connection sent an unparsable frame and got the
\* error envelope while another connection was open and a webhook stored
C36_Witness ==
  /\ step.op = "unparsable"
  /\ readyState[step.conn] = "OPEN"
  /\ DidOf(clientDids, step.conn) # Nil
  /\ sent # EmptyBag
  /\ webhooks # EmptyMap
  /\ \E c \in Conns : c # step.conn /\ c \in clients /\ readyState[c] = "OPEN"

\* ------------------------------------------------------------------------
\* Presence, binding and the DIDComm registry

\* C37: a connection is a member of an identity's presence set if and only
\* if it is in the connection set and its entry in the connection-to-identity
\* map is that identity; so no connection is counted under two identities
C37_PresenceMatchesBinding ==
  \A c \in Conns, did \in DIDs :
    (did \in DOMAIN onlineUsers /\ c \in onlineUsers[did])
      <=> (c \in clients /\ DidOf(clientDids, c) = did)

\* the open connections bound to an identity
OpenConnectionsOf(did) ==
  {c \in clients : readyState[c] = "OPEN" /\ DidOf(clientDids, c) = did}

\* C38: an identity with at least one open authenticated connection has an
\* entry in the DIDComm client registry, and the entry points to one of its
\* open connections
C38_RegisteredWhileConnected ==
  \A did \in DIDs :
    OpenConnectionsOf(did) # {} =>
      (did \in DOMAIN connectedClients /\ connectedClients[did] \in OpenConnectionsOf(did))

\* ------------------------------------------------------------------------
\* Fields of the client's webhook object

\* webhook objects that carry, beside url, secret and retryAttempts, an
\* owner, a chat, an active flag and a registration time of the client's
\* choosing
ForgedInputs ==
  [url : {"http://forged"}, secret : {"s1", Nil}, retryAttempts : {1},
   ownerDid : {"did:b"}, chatId : {"c-forged"}, active : {FALSE},
   registeredAt : {"t-client"}]

PlainInputs == [url : {"http://h1"}, secret : {"s1", Nil}, retryAttempts : {1}]

\* connections that open, authenticate once and register webhooks with
\* plain and with forged webhook objects
NextForged ==
  \/ \E c \in Conns : handleConnection(c)
  \/ \E c \in Conns, did \in DIDs :
       DidOf(clientDids, c) = Nil /\ handleAuthentication(c, did)
  \/ \E c \in Conns, chatId \in Chats, webhook \in ForgedInputs \cup PlainInputs :
       handleWebhookRegistration(c, chatId, webhook, "gen")
  \/ \E c \in Conns, chatId \in Chats : handleWebhookRemoval(c, chatId)

SpecForged == Init /\ [][NextForged]_vars

\* C39: the configuration stored by register_webhook records as owner the
\* identity the registering connection authenticated as and as chat the
\* chatId of the envelope, is active and carries the server's time, whatever
\* ownerDid, chatId, active or registeredAt the client's webhook object holds
C39_OwnerAndChatFromServer ==
  /\ [][(step'.op = "register_webhook" /\ DidOf(clientDids, step'.conn) # Nil) =>
          LET config == webhooks'[step'.chatId]
          IN  /\ config.ownerDid = DidOf(clientDids, step'.conn)
              /\ config.chatId = step'.chatId
              /\ config.active = TRUE
              /\ config.registeredAt = ServerTime]_vars
  /\ [](\A chatId \in DOMAIN webhooks :
          /\ webhooks[chatId].chatId = chatId
          /\ webhooks[chatId].active = TRUE
          /\ webhooks[chatId].registeredAt = ServerTime)

\* a connection registered a webhook object that named another identity as
\* owner, another chat, active false and a time of its own
C39_Witness ==
  /\ step.op = "register_webhook"
  /\ step.chatId \in DOMAIN webhooks
  /\ webhooks[step.chatId].url = "http://forged"
  /\ webhooks[step.chatId].ownerDid = "did:a"
  /\ DidOf(clientDids, step.conn) = "did:a"
  /\ \E m \in BagToSet(sent) : m.env.type = "webhook_registered"

\* ------------------------------------------------------------------------
\* The sweep and the connections that answer

\* the DIDComm registration of the identity a connection is bound to
RegistrationOf(cc, cd, c) ==
  IF DidOf(cd, c) \in DOMAIN cc THEN cc[DidOf(cd, c)] ELSE NoSocket

\* C40: a connection that has answered the probe with a pong when the
\* probe's deadline comes is not terminated, and a sweep leaves an open
\* connection's membership of the connection set, its registration with the
\* DIDComm service, its identity binding and its presence membership as
\* they were
C40_ResponsiveConnectionUntouched ==
  /\ [][(step'.op = "timeout" /\ isAlive[step'.conn]) =>
          readyState'[step'.conn] = readyState[step'.conn]]_vars
  /\ [][step'.op = "sweep" =>
          \A c \in clients :
            readyState[c] = "OPEN" =>
              /\ c \in clients'
              /\ readyState'[c] = "OPEN"
              /\ DidOf(clientDids', c) = DidOf(clientDids, c)
              /\ onlineUsers' = onlineUsers
              /\ RegistrationOf(connectedClients', clientDids', c)
                   = RegistrationOf(connectedClients, clientDids, c)]_vars

====
